---- MODULE Spec2Model ----
(***************************************************************************)
(* Streaming event protocol of cursor-rules-craft and its client-side      *)
(* reconstruction:                                                         *)
(*   - useRuleGeneration.generateRule (apps/frontend/src/hooks/            *)
(*     useRuleGeneration.ts): chunk decoder, line parser, reducer.         *)
(*   - AIChatPanel (apps/backend/src/ai/types.ts, lines 168-663):          *)
(*     completion gate, dedup guard, pending-event batches.                *)
(*   - RepositoryDetailPage (apps/frontend/src/pages/dashboard/            *)
(*     repositories/detail/page.tsx): the state the panel's callbacks      *)
(*     write.                                                              *)
(*   - AIController.chat and AIService.generateStream: the HTTP boundary   *)
(*     and the options handed to the model.                                *)
(*                                                                         *)
(* Text is a sequence of characters.  A character is a string; the few     *)
(* multi-character groups that no claim needs to cut ("data: ", the text   *)
(* of a JSON object up to its closing brace) are one character each.       *)
(***************************************************************************)
EXTENDS Integers, Sequences, FiniteSets, TLC

(***************************************************************************)
(* Bounds of the model.                                                    *)
(***************************************************************************)
MaxLines == 2          \* lines of an arbitrary response stream
MaxContentEvents == 1  \* content events per phase of a producer's stream
MaxTextLen == 4        \* characters of an arbitrary (non-protocol) text
MaxMessages == 4       \* messages of the chat
MaxChunks == 2         \* chunk events of an assistant message
MaxResets == 1         \* resetSession calls
MaxCalls == 2          \* generateRule calls, one after the other
MaxHookResets == 1     \* reset() calls of useRuleGeneration
MaxChatMessages == 2   \* messages of a request to POST /ai/chat
MaxSetCalls == 1       \* setRuleContent calls of useRuleGeneration

VARIABLES
    \* ---- useRuleGeneration ----
    state,                  \* RuleGenerationState (useState)
    pc,                     \* position of the generateRule call
    onChunk,                \* the caller's observer: "absent", "returns", "throws"
    text,                   \* the text the server writes to the response
    body,                   \* response.body: the UTF-8 bytes of text
    pos,                    \* bytes of body the reader has delivered
    pendingBytes,           \* TextDecoder: bytes of an incomplete character
    buffer,                 \* let buffer
    lines,                  \* rest of `for (const line of lines)`
    currentRuleContent,     \* let currentRuleContent
    currentFollowUpContent, \* let currentFollowUpContent
    metadata,               \* let metadata
    outcome,                \* the settled promise: result or error message
    calls,                  \* generateRule calls made so far
    resets,                 \* reset() calls made so far
    setCalls,               \* setRuleContent calls made so far
    \* ---- history of the call (not program state) ----
    decoded,                \* all text the decoder has produced
    handed,                 \* lines the for loop has iterated over
    observed,               \* chunks passed to onChunk
    \* ---- useChat, as AIChatPanel sees it ----
    chatMessages,           \* messages: id, role, parts
    status,                 \* "ready", "submitted", "streaming", "error"
    \* ---- AIChatPanel ----
    isGeneratingRules,      \* useState
    ruleContent,            \* useState
    eventOnlyMessageIds,    \* useState
    pendingEvents,          \* pendingEventsRef.current
    processedMessageIds,    \* processedMessageIdsRef.current
    timers,                 \* setTimeout callbacks not yet run, each with the
                            \* handleStreamingEvent closure it captured
    effects,                \* effects of the committed render still to run
    session,                \* resetSession calls so far
    \* ---- RepositoryDetailPage ----
    page,                   \* isGeneratingRules, streamingRuleContent, ruleMeta,
                            \* clarifyMessage (useState, page.tsx lines 44-56)
    \* ---- history of the panel (not program state) ----
    parses,                 \* runs of the message effect that passed both guards
    applied,                \* events passed to handleStreamingEvent
    lastRun,                \* what the latest run of the message effect did
    seenStreaming,          \* ids a run has seen with a streaming text part
    seenSettled,            \* <<id, session>>: a run has seen the text part done
    \* ---- AIController.chat ----
    chatPc,                 \* position of the chat call
    reqBody,                \* @Body() body
    messages,               \* let messages
    options,                \* let model, provider, temperature, maxTokens
    res,                    \* the response: status sent, or the piped stream
    streamOptions           \* what streamText was called with

hookVars == <<state, pc, onChunk, text, body, pos, pendingBytes, buffer, lines,
              currentRuleContent, currentFollowUpContent, metadata, outcome,
              calls, resets, setCalls, decoded, handed, observed>>

panelVars == <<chatMessages, status, isGeneratingRules, ruleContent,
               eventOnlyMessageIds, pendingEvents, processedMessageIds, timers,
               effects, session, page, parses, applied, lastRun, seenStreaming,
               seenSettled>>

chatVars == <<chatPc, reqBody, messages, options, res, streamOptions>>

vars == <<hookVars, panelVars, chatVars>>

(***************************************************************************)
(* Values.                                                                 *)
(***************************************************************************)
LF == "\n"
SP == " "
DataPrefix == "data: "
CloseBrace == "}"
NULL == "<null>"            \* JavaScript null (error: string | null)
Undefined == <<>>           \* JavaScript undefined, for an object-valued slot

RECURSIVE Concat(_)
Concat(ss) == IF ss = <<>> THEN <<>> ELSE Head(ss) \o Concat(Tail(ss))

(***************************************************************************)
(* String.prototype.split('\n'): the pieces between line feeds; always at  *)
(* least one piece.                                                        *)
(***************************************************************************)
RECURSIVE SplitAcc(_, _)
SplitAcc(s, cur) ==
    IF s = <<>> THEN <<cur>>
    ELSE IF Head(s) = LF THEN <<cur>> \o SplitAcc(Tail(s), <<>>)
    ELSE SplitAcc(Tail(s), Append(cur, Head(s)))

SplitLF(s) == SplitAcc(s, <<>>)

(* Array.prototype.pop: the array without its last element. *)
Front(a) == SubSeq(a, 1, Len(a) - 1)
Last(a) == a[Len(a)]

(* String.prototype.trim *)
RECURSIVE TrimStart(_)
TrimStart(s) == IF s # <<>> /\ Head(s) = SP THEN TrimStart(Tail(s)) ELSE s

RECURSIVE TrimEnd(_)
TrimEnd(s) == IF s # <<>> /\ Last(s) = SP THEN TrimEnd(Front(s)) ELSE s

Trim(s) == TrimEnd(TrimStart(s))

(***************************************************************************)
(* TextDecoder.decode(value, { stream: true }) for UTF-8.  A byte is a     *)
(* string; every byte but LeadByte and ContByte is a one-byte character    *)
(* that decodes to itself, LeadByte ContByte is the two-byte character     *)
(* EAcute.  A lead byte at the end of a fragment is kept for the next      *)
(* call; a malformed sequence decodes to the replacement character.        *)
(***************************************************************************)
LeadByte == "0xC3"
ContByte == "0xA9"
EAcute == "U+00E9"
Replacement == "U+FFFD"

RECURSIVE DecodeStream(_, _)
DecodeStream(pend, bytes) ==
    IF bytes = <<>> THEN [text |-> <<>>, pending |-> pend]
    ELSE IF pend # <<>> THEN
        IF Head(bytes) = ContByte
        THEN LET r == DecodeStream(<<>>, Tail(bytes))
             IN  [text |-> <<EAcute>> \o r.text, pending |-> r.pending]
        ELSE LET r == DecodeStream(<<>>, bytes)
             IN  [text |-> <<Replacement>> \o r.text, pending |-> r.pending]
    ELSE IF Head(bytes) = LeadByte THEN DecodeStream(<<LeadByte>>, Tail(bytes))
    ELSE LET r == DecodeStream(<<>>, Tail(bytes))
             c == IF Head(bytes) = ContByte THEN Replacement ELSE Head(bytes)
         IN  [text |-> <<c>> \o r.text, pending |-> r.pending]

(* The UTF-8 bytes of a text (what the server puts on the wire). *)
RECURSIVE Encode(_)
Encode(t) ==
    IF t = <<>> THEN <<>>
    ELSE (IF Head(t) = EAcute THEN <<LeadByte, ContByte>> ELSE <<Head(t)>>)
         \o Encode(Tail(t))

(***************************************************************************)
(* The chunk decoder of generateRule, for one fragment `value`:            *)
(*   buffer += decoder.decode(value, { stream: true });                    *)
(*   const lines = buffer.split('\n');  buffer = lines.pop() || '';        *)
(* `text` is what the decoder returned.                                    *)
(***************************************************************************)
DecodeFragmentNoCarry(buf, pend, value) ==
    LET d == DecodeStream(pend, value)
        split == SplitLF(buf \o d.text)
    IN  [pending |-> d.pending, text |-> d.text,
         buffer |-> <<>>, lines |-> Front(split)]

DecodeFragment(buf, pend, value) ==
    LET d == DecodeStream(pend, value)
        split == SplitLF(buf \o d.text)
    IN  [pending |-> d.pending, text |-> d.text,
         buffer |-> Last(split), lines |-> Front(split)]

(***************************************************************************)
(* RuleGenerationStreamChunk objects on the wire.  The JSON text of an     *)
(* object is two characters: its key below (the text up to the closing     *)
(* brace) and CloseBrace.                                                  *)
(***************************************************************************)
MetaFull == [ruleType |-> "COMMAND", fileName |-> "f.mdc"]

ChunkOf ==
    [k \in {"psR", "psR-", "psF", "rcA", "rcB", "rc0", "fcC", "fc0",
            "peR", "peR0", "peR-", "peF", "peF0", "peF-", "err", "err-", "unk"} |->
     CASE k = "psR"  -> [type |-> "phase-start", phase |-> "rule-generation",
                         metadata |-> MetaFull]
       [] k = "psR-" -> [type |-> "phase-start", phase |-> "rule-generation"]
       [] k = "psF"  -> [type |-> "phase-start", phase |-> "follow-up-message"]
       [] k = "rcA"  -> [type |-> "rule-content", content |-> "a"]
       [] k = "rcB"  -> [type |-> "rule-content", content |-> "b"]
       [] k = "rc0"  -> [type |-> "rule-content", content |-> ""]
       [] k = "fcC"  -> [type |-> "follow-up-content", content |-> "c"]
       [] k = "fc0"  -> [type |-> "follow-up-content", content |-> ""]
       [] k = "peR"  -> [type |-> "phase-end", phase |-> "rule-generation",
                         finalContent |-> "R"]
       [] k = "peR0" -> [type |-> "phase-end", phase |-> "rule-generation",
                         finalContent |-> ""]
       [] k = "peR-" -> [type |-> "phase-end", phase |-> "rule-generation"]
       [] k = "peF"  -> [type |-> "phase-end", phase |-> "follow-up-message",
                         finalContent |-> "F"]
       [] k = "peF0" -> [type |-> "phase-end", phase |-> "follow-up-message",
                         finalContent |-> ""]
       [] k = "peF-" -> [type |-> "phase-end", phase |-> "follow-up-message"]
       [] k = "err"  -> [type |-> "error", errorText |-> "boom"]
       [] k = "err-" -> [type |-> "error"]
       [] k = "unk"  -> [type |-> "progress"]]

ChunkKeys == DOMAIN ChunkOf

(***************************************************************************)
(* StreamingEvent objects in the text of an assistant message, written     *)
(* the same way.  "bogus" has an event name outside the protocol, "noev"   *)
(* has none.                                                               *)
(***************************************************************************)
MetaPayload ==
    [id |-> "r1", rule_type |-> "COMMAND", tech_stack |-> <<"ts">>,
     filename |-> "f.mdc", schema_version |-> "1"]

EventOf ==
    [k \in {"meta", "meta-", "chA", "chB", "ch-", "done", "error", "clarify",
            "clarify-", "progress", "bogus", "noev"} |->
     CASE k = "meta"     -> [event |-> "meta", payload |-> MetaPayload]
       [] k = "meta-"    -> [event |-> "meta"]
       [] k = "chA"      -> [event |-> "chunk", payload |-> [content |-> "a"]]
       [] k = "chB"      -> [event |-> "chunk", payload |-> [content |-> "b"]]
       [] k = "ch-"      -> [event |-> "chunk"]
       [] k = "done"     -> [event |-> "done"]
       [] k = "error"    -> [event |-> "error", payload |-> [message |-> "boom"]]
       [] k = "clarify"  -> [event |-> "clarify",
                             payload |-> [message |-> "which?",
                                          required_fields |-> <<"tech_stack">>]]
       [] k = "clarify-" -> [event |-> "clarify"]
       [] k = "progress" -> [event |-> "progress"]
       [] k = "bogus"    -> [event |-> "status"]
       [] k = "noev"     -> [payload |-> [content |-> "a"]]]

EventKeys == DOMAIN EventOf

(***************************************************************************)
(* JSON.parse on the characters of a line: surrounding whitespace is       *)
(* allowed; an object text parses to its object, `null` to null, anything  *)
(* else (a truncated object, a stray brace, prose) is a SyntaxError.       *)
(***************************************************************************)
JSONParse(str) ==
    LET t == Trim(str)
    IN  IF Len(t) = 2 /\ t[1] \in ChunkKeys /\ t[2] = CloseBrace
        THEN [kind |-> "object", value |-> ChunkOf[t[1]]]
        ELSE IF Len(t) = 2 /\ t[1] \in EventKeys /\ t[2] = CloseBrace
        THEN [kind |-> "object", value |-> EventOf[t[1]]]
        ELSE IF t = <<"null">> THEN [kind |-> "null"]
        ELSE [kind |-> "SyntaxError"]

(* obj.f for a string-valued property: the value, or undefined. *)
UndefinedStr == "<undefined>"
Prop(obj, f) == IF f \in DOMAIN obj THEN obj[f] ELSE UndefinedStr
(* obj.f for an object-valued property. *)
PropObj(obj, f) == IF f \in DOMAIN obj THEN obj[f] ELSE Undefined
(* JavaScript truthiness of a string | undefined. *)
Truthy(s) == s # UndefinedStr /\ s # ""
(* a || b *)
OrElse(a, b) == IF Truthy(a) THEN a ELSE b

(***************************************************************************)
(* useRuleGeneration: the state of the hook.                               *)
(***************************************************************************)
InitialState ==
    [isGenerating |-> FALSE, isStreamingRule |-> FALSE,
     isStreamingFollowUp |-> FALSE, currentPhase |-> "idle",
     ruleContent |-> "", followUpContent |-> "", error |-> NULL,
     metadata |-> Undefined]

UnknownError == "Unknown error occurred"

(* An outer catch that records the error and nothing else. *)
FailedStateErrorOnly(st, message) == [st EXCEPT !.error = message]

(* An outer catch that also rolls back what the stream has written. *)
FailedStateRollback(st, message) ==
    [st EXCEPT !.error = message, !.isGenerating = FALSE,
               !.isStreamingRule = FALSE, !.isStreamingFollowUp = FALSE,
               !.currentPhase = "idle", !.ruleContent = "",
               !.followUpContent = "", !.metadata = Undefined]

(* setState of the outer catch of generateRule. *)
FailedState(st, message) ==
    [st EXCEPT !.error = message, !.isGenerating = FALSE,
               !.isStreamingRule = FALSE, !.isStreamingFollowUp = FALSE,
               !.currentPhase = "idle"]

(* A reset that keeps the error of the state it is called in. *)
ResetKeepsError ==
    [isGenerating |-> FALSE, isStreamingRule |-> FALSE,
     isStreamingFollowUp |-> FALSE, currentPhase |-> "idle",
     ruleContent |-> "", followUpContent |-> "", error |-> state.error,
     metadata |-> Undefined]

(* The literal reset() passes to setState (lines 245-253). *)
ResetState ==
    [isGenerating |-> FALSE, isStreamingRule |-> FALSE,
     isStreamingFollowUp |-> FALSE, currentPhase |-> "idle",
     ruleContent |-> "", followUpContent |-> "", error |-> NULL,
     metadata |-> Undefined]

(* The first setState of generateRule (lines 59-66). *)
Started(st) ==
    [st EXCEPT !.isGenerating = TRUE, !.currentPhase = "rule-generation",
               !.ruleContent = "", !.followUpContent = "", !.error = NULL]

(* An accumulator that is overwritten by the event's content. *)
ReplaceContent(acc, content) == content

(* currentRuleContent += chunk.content *)
AppendContent(acc, content) == acc \o content

(* A phase-start(follow-up-message) that leaves currentPhase as it is. *)
FollowUpStartedKeepPhase(st) ==
    [st EXCEPT !.isStreamingRule = FALSE, !.isStreamingFollowUp = TRUE]

(* setState of case 'phase-start', chunk.phase === 'follow-up-message'. *)
FollowUpStarted(st) ==
    [st EXCEPT !.isStreamingRule = FALSE, !.isStreamingFollowUp = TRUE,
               !.currentPhase = "follow-up-message"]

(***************************************************************************)
(* switch (chunk.type) of generateRule, on the call's context              *)
(* c = [state, currentRuleContent, currentFollowUpContent, metadata].      *)
(* The result adds `thrown`: the message of the Error the case throws,     *)
(* or NULL.                                                                *)
(***************************************************************************)
ReduceChunk(c, chunk) ==
    LET type == Prop(chunk, "type")
        phase == Prop(chunk, "phase")
        keep == [state |-> c.state, currentRuleContent |-> c.currentRuleContent,
                 currentFollowUpContent |-> c.currentFollowUpContent,
                 metadata |-> c.metadata, thrown |-> NULL]
    IN  CASE type = "phase-start" /\ phase = "rule-generation" ->
               [keep EXCEPT !.state = [c.state EXCEPT
                                          !.isStreamingRule = TRUE,
                                          !.currentPhase = "rule-generation",
                                          !.metadata = PropObj(chunk, "metadata")],
                            !.metadata = PropObj(chunk, "metadata")]
          [] type = "phase-start" /\ phase = "follow-up-message" ->
               [keep EXCEPT !.state = FollowUpStarted(c.state)]
          [] type = "rule-content" /\ Truthy(Prop(chunk, "content")) ->
               LET acc == AppendContent(c.currentRuleContent, chunk.content)
               IN  [keep EXCEPT !.currentRuleContent = acc,
                                !.state = [c.state EXCEPT !.ruleContent = acc]]
          [] type = "follow-up-content" /\ Truthy(Prop(chunk, "content")) ->
               LET acc == AppendContent(c.currentFollowUpContent, chunk.content)
               IN  [keep EXCEPT !.currentFollowUpContent = acc,
                                !.state = [c.state EXCEPT !.followUpContent = acc]]
          [] type = "phase-end" /\ phase = "rule-generation" ->
               LET fin == OrElse(Prop(chunk, "finalContent"), c.currentRuleContent)
               IN  [keep EXCEPT !.currentRuleContent = fin,
                                !.state = [c.state EXCEPT
                                              !.ruleContent = fin,
                                              !.isStreamingRule = FALSE]]
          [] type = "phase-end" /\ phase = "follow-up-message" ->
               LET fin == OrElse(Prop(chunk, "finalContent"), c.currentFollowUpContent)
               IN  [keep EXCEPT !.currentFollowUpContent = fin,
                                !.state = [c.state EXCEPT
                                              !.followUpContent = fin,
                                              !.isStreamingFollowUp = FALSE,
                                              !.currentPhase = "completed",
                                              !.isGenerating = FALSE]]
          [] type = "error" ->
               LET msg == OrElse(Prop(chunk, "errorText"), UnknownError)
               IN  [keep EXCEPT !.state = [c.state EXCEPT
                                              !.error = msg,
                                              !.isGenerating = FALSE,
                                              !.isStreamingRule = FALSE,
                                              !.isStreamingFollowUp = FALSE,
                                              !.currentPhase = "idle"],
                                !.thrown = msg]
          [] OTHER -> keep

(***************************************************************************)
(* The body of `for (const line of lines)` for one line.  Everything       *)
(* thrown inside the try (by JSON.parse, by onChunk, by reading .type of   *)
(* null, by case 'error') is caught by `catch (parseError)`, which logs    *)
(* and lets the loop go on: no exception leaves this step.  The result     *)
(* adds `seen`: the values onChunk was called with.                        *)
(***************************************************************************)
HandleLineNoCatch(c, line, observer) ==
    LET keep == [state |-> c.state, currentRuleContent |-> c.currentRuleContent,
                 currentFollowUpContent |-> c.currentFollowUpContent,
                 metadata |-> c.metadata, seen |-> <<>>]
    IN  IF Trim(line) = <<>> THEN keep
        ELSE IF ~(Len(line) >= 1 /\ line[1] = DataPrefix) THEN keep
        ELSE LET parsed == JSONParse(Tail(line))
             IN  IF parsed.kind # "object"
                 THEN [keep EXCEPT !.state = FailedState(c.state, parsed.kind)]
                 ELSE LET r == ReduceChunk(c, parsed.value)
                      IN  [state |-> r.state,
                           currentRuleContent |-> r.currentRuleContent,
                           currentFollowUpContent |-> r.currentFollowUpContent,
                           metadata |-> r.metadata,
                           seen |-> IF observer = "absent" THEN <<>>
                                    ELSE <<parsed.value>>]

HandleLine(c, line, observer) ==
    LET keep == [state |-> c.state, currentRuleContent |-> c.currentRuleContent,
                 currentFollowUpContent |-> c.currentFollowUpContent,
                 metadata |-> c.metadata, seen |-> <<>>]
    IN  IF Trim(line) = <<>> THEN keep
        ELSE IF ~(Len(line) >= 1 /\ line[1] = DataPrefix) THEN keep
        ELSE LET parsed == JSONParse(Tail(line))
             IN  IF parsed.kind = "SyntaxError" THEN keep
                 ELSE LET seen == IF observer = "absent" THEN <<>>
                                  ELSE <<IF parsed.kind = "null" THEN [null |-> TRUE]
                                         ELSE parsed.value>>
                      IN  IF observer = "throws" \/ parsed.kind = "null"
                          THEN [keep EXCEPT !.seen = seen]
                          ELSE LET r == ReduceChunk(c, parsed.value)
                               IN  [state |-> r.state,
                                    currentRuleContent |-> r.currentRuleContent,
                                    currentFollowUpContent |-> r.currentFollowUpContent,
                                    metadata |-> r.metadata, seen |-> seen]

(* const result: RuleGenerationResponse (without the request's model,     *)
(* provider and the clock, which no event of the stream touches).         *)
Result(rule, followUp, meta) ==
    [ruleContent |-> rule, followUpMessage |-> followUp,
     ruleType |-> OrElse(Prop(meta, "ruleType"), "PROJECT_RULE"),
     fileName |-> OrElse(Prop(meta, "fileName"), "generated-rule")]

(***************************************************************************)
(* Inputs: the response streams the server may send.                       *)
(***************************************************************************)
RECURSIVE SeqsUpTo(_, _)
SeqsUpTo(S, n) ==
    IF n = 0 THEN {<<>>}
    ELSE LET r == SeqsUpTo(S, n - 1)
         IN  r \cup {Append(q, x) : q \in r, x \in S}

DataLine(k) == <<DataPrefix, k, CloseBrace>>

(* A data line whose payload is not valid JSON (the object text is cut    *)
(* short), and one whose payload is the JSON value null.                  *)
MalformedLines == {<<DataPrefix, "rcA">>, <<DataPrefix, "null">>}

(* The lines of an arbitrary stream: events of every type, an unknown    *)
(* type, malformed payloads and a blank line.                             *)
LineKinds ==
    {DataLine(k) : k \in {"psR", "psF", "rcA", "rc0", "fcC", "peR", "peF", "peF-",
                          "err", "unk"}}
    \cup MalformedLines \cup {<<>>}

(* Every line followed by a line feed. *)
Terminated(ls) == Concat([i \in 1..Len(ls) |-> Append(ls[i], LF)])

(* Any lines in any order; the last line may lack its line feed. *)
ArbitraryStreams ==
    LET lss == SeqsUpTo(LineKinds, MaxLines)
    IN  {Terminated(ls) : ls \in lss}
        \cup {Front(Terminated(ls)) : ls \in lss \ {<<>>}}

(* What the producer's phase state machine emits when nothing fails. *)
ProducerStreams ==
    {Terminated(<<DataLine("psR")>> \o rc \o <<DataLine(pe), DataLine("psF")>>
                \o fc \o <<DataLine(pf)>>) :
        rc \in SeqsUpTo({DataLine("rcA"), DataLine("rcB")}, MaxContentEvents),
        pe \in {"peR", "peR0"},
        fc \in SeqsUpTo({DataLine("fcC"), DataLine("fc0")}, MaxContentEvents),
        pf \in {"peF", "peF0"}}

(* Two content events with a malformed line between them. *)
ContentLines == {DataLine("rcA"), DataLine("rcB"), DataLine("fcC")}
SandwichStreams ==
    {Terminated(<<c1, m, c2>>) : c1 \in ContentLines, m \in MalformedLines,
                                 c2 \in ContentLines}

(* Text that is not protocol at all, with a two-byte character. *)
RawStreams == SeqsUpTo({LF, SP, EAcute}, MaxTextLen)

Streams == ArbitraryStreams \cup ProducerStreams \cup SandwichStreams \cup RawStreams

(* What a later request of the session is answered with: the whole         *)
(* protocol, a stream cut after its first event, an error event.           *)
RepeatStreams ==
    {Terminated(<<DataLine("psR"), DataLine("rcB"), DataLine("peR"),
                  DataLine("psF"), DataLine("fcC"), DataLine("peF")>>),
     Terminated(<<DataLine("psR-")>>),
     Terminated(<<DataLine("err")>>)}

(* onChunk given and returning, or given and throwing.  (Not given, the   *)
(* call behaves as with one that returns.)                                *)
Observers == {"returns", "throws"}

TransportFailures ==
    {"Failed to fetch", "HTTP 500: Internal Server Error", "Response body is null"}

(***************************************************************************)
(* generateRule, step by step.                                             *)
(***************************************************************************)
InitHook ==
    /\ state = InitialState
    /\ pc = "idle"
    /\ onChunk = "absent"
    /\ text = <<>>
    /\ body = <<>>
    /\ pos = 0
    /\ pendingBytes = <<>>
    /\ buffer = <<>>
    /\ lines = <<>>
    /\ currentRuleContent = ""
    /\ currentFollowUpContent = ""
    /\ metadata = Undefined
    /\ outcome = Undefined
    /\ calls = 0
    /\ resets = 0
    /\ setCalls = 0
    /\ decoded = <<>>
    /\ handed = <<>>
    /\ observed = <<>>

(* generateRule(request, onChunk): the first setState, then fetch. *)
GenerateRule ==
    /\ pc = "idle"
    /\ \E o \in Observers : onChunk' = o
    /\ state' = Started(state)
    /\ pc' = "fetch"
    /\ calls' = calls + 1
    /\ UNCHANGED <<text, body, pos, pendingBytes, buffer, lines, currentRuleContent,
                   currentFollowUpContent, metadata, outcome, decoded, handed,
                   observed, resets, setCalls>>
    /\ UNCHANGED <<panelVars, chatVars>>

(* fetch resolves with an ok response that has a body. *)
FetchOk ==
    /\ pc = "fetch"
    /\ \E t \in (IF calls = 1 THEN Streams ELSE RepeatStreams) :
          text' = t /\ body' = Encode(t)
    /\ pos' = 0
    /\ pendingBytes' = <<>>
    /\ buffer' = <<>>
    /\ currentRuleContent' = ""
    /\ currentFollowUpContent' = ""
    /\ metadata' = Undefined
    /\ pc' = "read"
    /\ UNCHANGED <<state, onChunk, lines, outcome, decoded, handed, observed>>
    /\ UNCHANGED <<calls, resets, setCalls>>
    /\ UNCHANGED <<panelVars, chatVars>>

(* fetch rejects, or !response.ok, or !response.body: the outer catch. *)
FetchFails ==
    /\ pc = "fetch"
    /\ \E m \in TransportFailures :
          /\ state' = FailedState(state, m)
          /\ outcome' = [rejected |-> m]
    /\ pc' = "rejected"
    /\ UNCHANGED <<onChunk, text, body, pos, pendingBytes, buffer, lines,
                   currentRuleContent, currentFollowUpContent, metadata, decoded,
                   handed, observed>>
    /\ UNCHANGED <<calls, resets, setCalls>>
    /\ UNCHANGED <<panelVars, chatVars>>

(* A read issued while lines of the earlier fragment are still to be      *)
(* handled: the lines of the new fragment get ahead of them.              *)
ReadChunkEarly ==
    /\ pc \in {"read", "lines"}
    /\ \E n \in 1..(Len(body) - pos) :
          LET d == DecodeFragment(buffer, pendingBytes, SubSeq(body, pos + 1, pos + n))
          IN  /\ pos' = pos + n
              /\ pendingBytes' = d.pending
              /\ decoded' = decoded \o d.text
              /\ buffer' = d.buffer
              /\ lines' = d.lines \o lines
              /\ pc' = IF d.lines \o lines = <<>> THEN "read" ELSE "lines"
    /\ UNCHANGED <<state, onChunk, text, body, currentRuleContent,
                   currentFollowUpContent, metadata, outcome, handed, observed>>
    /\ UNCHANGED <<calls, resets, setCalls>>
    /\ UNCHANGED <<panelVars, chatVars>>

(* reader.read() yields a fragment: decode, append, split, pop. *)
ReadChunk ==
    /\ pc = "read"
    /\ \E n \in 1..(Len(body) - pos) :
          LET d == DecodeFragment(buffer, pendingBytes, SubSeq(body, pos + 1, pos + n))
          IN  /\ pos' = pos + n
              /\ pendingBytes' = d.pending
              /\ decoded' = decoded \o d.text
              /\ buffer' = d.buffer
              /\ lines' = d.lines
              /\ pc' = IF d.lines = <<>> THEN "read" ELSE "lines"
    /\ UNCHANGED <<state, onChunk, text, body, currentRuleContent,
                   currentFollowUpContent, metadata, outcome, handed, observed>>
    /\ UNCHANGED <<calls, resets, setCalls>>
    /\ UNCHANGED <<panelVars, chatVars>>

(* One iteration of the for loop. *)
ProcessLine ==
    /\ pc = "lines"
    /\ LET r == HandleLine([state |-> state,
                            currentRuleContent |-> currentRuleContent,
                            currentFollowUpContent |-> currentFollowUpContent,
                            metadata |-> metadata], Head(lines), onChunk)
       IN  /\ state' = r.state
           /\ currentRuleContent' = r.currentRuleContent
           /\ currentFollowUpContent' = r.currentFollowUpContent
           /\ metadata' = r.metadata
           /\ observed' = observed \o r.seen
    /\ handed' = Append(handed, Head(lines))
    /\ lines' = Tail(lines)
    /\ pc' = IF Tail(lines) = <<>> THEN "read" ELSE "lines"
    /\ UNCHANGED <<onChunk, text, body, pos, pendingBytes, buffer, outcome, decoded>>
    /\ UNCHANGED <<calls, resets, setCalls>>
    /\ UNCHANGED <<panelVars, chatVars>>

(* A stream end that first handles what is left in the buffer as a line. *)
StreamDoneFlush ==
    /\ pc = "read"
    /\ pos = Len(body)
    /\ LET r == HandleLine([state |-> state,
                            currentRuleContent |-> currentRuleContent,
                            currentFollowUpContent |-> currentFollowUpContent,
                            metadata |-> metadata], buffer, onChunk)
       IN  /\ state' = r.state
           /\ currentRuleContent' = r.currentRuleContent
           /\ currentFollowUpContent' = r.currentFollowUpContent
           /\ metadata' = r.metadata
           /\ observed' = observed \o r.seen
           /\ outcome' = [resolved |-> Result(r.currentRuleContent,
                                              r.currentFollowUpContent, r.metadata)]
    /\ pc' = "resolved"
    /\ UNCHANGED <<onChunk, text, body, pos, pendingBytes, buffer, lines, decoded,
                   handed, calls, resets, setCalls>>
    /\ UNCHANGED <<panelVars, chatVars>>

(* reader.read() reports done: break, build the result, return it. *)
StreamDone ==
    /\ pc = "read"
    /\ pos = Len(body)
    /\ outcome' = [resolved |-> Result(currentRuleContent, currentFollowUpContent,
                                       metadata)]
    /\ pc' = "resolved"
    /\ UNCHANGED <<state, onChunk, text, body, pos, pendingBytes, buffer, lines,
                   currentRuleContent, currentFollowUpContent, metadata, decoded,
                   handed, observed>>
    /\ UNCHANGED <<calls, resets, setCalls>>
    /\ UNCHANGED <<panelVars, chatVars>>

(* reader.read() rejects (the connection drops): the outer catch. *)
ReadFails ==
    /\ pc = "read"
    /\ state' = FailedState(state, "network error")
    /\ outcome' = [rejected |-> "network error"]
    /\ pc' = "rejected"
    /\ UNCHANGED <<onChunk, text, body, pos, pendingBytes, buffer, lines,
                   currentRuleContent, currentFollowUpContent, metadata, decoded,
                   handed, observed>>
    /\ UNCHANGED <<calls, resets, setCalls>>
    /\ UNCHANGED <<panelVars, chatVars>>

NextHook ==
    \/ GenerateRule
    \/ FetchOk
    \/ FetchFails
    \/ ReadChunk
    \/ ProcessLine
    \/ StreamDone
    \/ ReadFails

(* generateRule is called again after the earlier call has settled: the   *)
(* same first setState, on the state the earlier call left.               *)
GenerateRuleAgain ==
    /\ pc \in {"resolved", "rejected"}
    /\ calls < MaxCalls
    /\ \E o \in Observers : onChunk' = o
    /\ state' = Started(state)
    /\ pc' = "fetch"
    /\ calls' = calls + 1
    /\ text' = <<>> /\ body' = <<>> /\ pos' = 0 /\ pendingBytes' = <<>>
    /\ buffer' = <<>> /\ lines' = <<>>
    /\ currentRuleContent' = "" /\ currentFollowUpContent' = ""
    /\ metadata' = Undefined
    /\ outcome' = Undefined
    /\ decoded' = <<>> /\ handed' = <<>> /\ observed' = <<>>
    /\ UNCHANGED <<resets, setCalls>>
    /\ UNCHANGED <<panelVars, chatVars>>

(* reset() (lines 244-254), called between two steps of a generateRule    *)
(* call or when none is in flight; the for loop over the lines of one     *)
(* fragment runs to its end without yielding.                             *)
Reset ==
    /\ pc # "lines"
    /\ resets < MaxHookResets
    /\ state' = ResetState
    /\ resets' = resets + 1
    /\ UNCHANGED <<pc, onChunk, text, body, pos, pendingBytes, buffer, lines,
                   currentRuleContent, currentFollowUpContent, metadata, outcome,
                   calls, setCalls, decoded, handed, observed>>
    /\ UNCHANGED <<panelVars, chatVars>>

NextSession ==
    \/ NextHook
    \/ GenerateRuleAgain
    \/ Reset

(* setState of setRuleContent (lines 231-239). *)
ContentSet(st, content, ruleType, fileName) ==
    [st EXCEPT !.ruleContent = content, !.currentPhase = "completed",
               !.metadata = [ruleType |-> ruleType,
                             fileName |-> OrElse(fileName, "agent-generated-rule")]]

(* The arguments of a call: content alone (ruleType takes its default,     *)
(* fileName is undefined), or all three.                                   *)
SetRuleContentArgs ==
    {<<"s", "PROJECT_RULE", UndefinedStr>>, <<"s", "COMMAND", "x.mdc">>}

(* setRuleContent(content, ruleType = 'PROJECT_RULE', fileName?) (lines     *)
(* 225-242), called between two steps of a generateRule call or when none  *)
(* is in flight.                                                           *)
SetRuleContent ==
    /\ pc # "lines"
    /\ setCalls < MaxSetCalls
    /\ \E args \in SetRuleContentArgs :
          state' = ContentSet(state, args[1], args[2], args[3])
    /\ setCalls' = setCalls + 1
    /\ UNCHANGED <<pc, onChunk, text, body, pos, pendingBytes, buffer, lines,
                   currentRuleContent, currentFollowUpContent, metadata, outcome,
                   calls, resets, decoded, handed, observed>>
    /\ UNCHANGED <<panelVars, chatVars>>

(* Every operation of the hook: generateRule, reset, setRuleContent. *)
NextOperations ==
    \/ NextSession
    \/ SetRuleContent

(***************************************************************************)
(* AIChatPanel.  React runs the component function on every state change   *)
(* and then the effects whose dependencies changed, in the order they are  *)
(* declared: the message effect ([chatMessages, status]) before the        *)
(* pending-events effect ([chatMessages, handleStreamingEvent]).           *)
(* handleStreamingEvent is a new function exactly when isGeneratingRules   *)
(* or ruleContent changed (the parent's callbacks have empty dependency    *)
(* lists, pages/dashboard/repositories/detail/page.tsx lines 151-181).     *)
(* `effects` holds the effects of the committed render that have not run   *)
(* yet; nothing else runs before them.  The `content` fallback of the      *)
(* message effect (lines 395-416) is left out: a UIMessage has no such     *)
(* property.                                                               *)
(***************************************************************************)
MsgId(n) == "m" \o ToString(n)

StepStart == [type |-> "step-start"]
TextPart(st, t) == [type |-> "text", state |-> st, text |-> t]
(* A text part without `state` (TextUIPart.state is optional). *)
TextPartNoState(t) == [type |-> "text", text |-> t]
PartState(p) == IF "state" \in DOMAIN p THEN p.state ELSE UndefinedStr

LastMessage == chatMessages[Len(chatMessages)]
LastIsAssistant == chatMessages # <<>> /\ LastMessage.role = "assistant"

(* lastMessage.parts?.some(text && state === 'streaming') *)
IsStreaming(parts) ==
    \E i \in DOMAIN parts : parts[i].type = "text" /\ PartState(parts[i]) = "streaming"

(* An isDone that does not look at the parts. *)
IsDoneAlways(parts) == TRUE

(* lastMessage.parts?.every(type !== 'text' || state === 'done') *)
IsDone(parts) ==
    \A i \in DOMAIN parts : parts[i].type # "text" \/ PartState(parts[i]) = "done"

ValidEventNames == {"meta", "chunk", "progress", "file", "done", "error", "clarify"}

(* event.event && typeof event.event === 'string' && [...].includes(...) *)
IsValidEvent(e) == "event" \in DOMAIN e /\ e.event \in ValidEventNames

(* for (const line of lines): trim, skip blanks, JSON.parse, keep the     *)
(* valid events; a parse error or a null is caught and skipped.           *)
RECURSIVE ParseEventLines(_)
ParseEventLines(ls) ==
    IF ls = <<>> THEN <<>>
    ELSE LET trimmedLine == Trim(Head(ls))
             rest == ParseEventLines(Tail(ls))
         IN  IF trimmedLine = <<>> THEN rest
             ELSE LET j == JSONParse(trimmedLine)
                  IN  IF j.kind = "object" /\ IsValidEvent(j.value)
                      THEN <<j.value>> \o rest
                      ELSE rest

(* for (const part of msgWithParts.parts): the text parts with text. *)
RECURSIVE PartsEvents(_)
PartsEvents(parts) ==
    IF parts = <<>> THEN <<>>
    ELSE (IF Head(parts).type = "text" /\ Head(parts).text # <<>>
          THEN ParseEventLines(SplitLF(Head(parts).text))
          ELSE <<>>) \o PartsEvents(Tail(parts))

HasTextPart(parts) == \E i \in DOMAIN parts : parts[i].type = "text"

(***************************************************************************)
(* RepositoryDetailPage: the state the panel's callbacks write.            *)
(***************************************************************************)
(* null where an object is expected *)
NullObject == [null |-> TRUE]

InitialPage ==
    [isGeneratingRules |-> FALSE, streamingRuleContent |-> "",
     ruleMeta |-> NullObject, clarifyMessage |-> NullObject]

handleRuleGenerationStart(pg, meta) ==
    [pg EXCEPT !.isGeneratingRules = TRUE, !.ruleMeta = meta,
               !.streamingRuleContent = ""]

handleRuleGenerationUpdate(pg, content) ==
    [pg EXCEPT !.streamingRuleContent = content]

handleRuleGenerationEnd(pg) == [pg EXCEPT !.isGeneratingRules = FALSE]

(* A handleClarify that does not keep the payload. *)
handleClarifyDropped(pg, payload) ==
    [pg EXCEPT !.streamingRuleContent = "", !.ruleMeta = NullObject]

handleClarify(pg, payload) ==
    [pg EXCEPT !.clarifyMessage = payload, !.streamingRuleContent = "",
               !.ruleMeta = NullObject]

(* handleStreamingEvent as the setTimeout callback holds it: `closure` is  *)
(* the isGeneratingRules and ruleContent it captured, `acc` the state its  *)
(* setState calls and the parent's callbacks have produced so far.         *)
HandleStreamingEvent(acc, e, closure) ==
    CASE e.event = "meta" ->
            [acc EXCEPT !.isGeneratingRules = TRUE, !.ruleContent = "",
                        !.page = IF "payload" \in DOMAIN e
                                 THEN handleRuleGenerationStart(@, e.payload)
                                 ELSE @]
      [] e.event = "chunk" ->
            IF closure.isGeneratingRules
            THEN LET content == OrElse(Prop(PropObj(e, "payload"), "content"), "")
                 IN  [acc EXCEPT !.ruleContent = @ \o content,
                                 !.page = handleRuleGenerationUpdate(
                                              @, closure.ruleContent \o content)]
            ELSE acc
      [] e.event \in {"done", "error"} ->
            [acc EXCEPT !.isGeneratingRules = FALSE,
                        !.page = handleRuleGenerationEnd(@)]
      [] e.event = "clarify" ->
            [acc EXCEPT !.isGeneratingRules = FALSE,
                        !.page = IF "payload" \in DOMAIN e
                                 THEN handleClarify(handleRuleGenerationEnd(@),
                                                    e.payload)
                                 ELSE handleRuleGenerationEnd(@)]
      [] OTHER -> acc

(* events.forEach(handleStreamingEvent) *)
RECURSIVE HandleBatch(_, _, _)
HandleBatch(acc, es, closure) ==
    IF es = <<>> THEN acc
    ELSE HandleBatch(HandleStreamingEvent(acc, Head(es).ev, closure), Tail(es), closure)

(* The effects React runs after a render. *)
EffectsAfter(chatChanged, statusChanged, handlerChanged) ==
    (IF chatChanged \/ statusChanged THEN <<"monitor">> ELSE <<>>)
    \o (IF chatChanged \/ handlerChanged THEN <<"pending">> ELSE <<>>)

(***************************************************************************)
(* What an assistant writes.                                               *)
(***************************************************************************)
EventLine(k) == <<k, CloseBrace>>

RECURSIVE JoinLF(_)
JoinLF(ls) ==
    IF ls = <<>> THEN <<>>
    ELSE IF Len(ls) = 1 THEN ls[1]
    ELSE ls[1] \o <<LF>> \o JoinLF(Tail(ls))

ChunkRun(n) == [i \in 1..n |-> EventLine(IF i % 2 = 1 THEN "chA" ELSE "chB")]

(* meta?, chunks, and a terminal event or none yet. *)
ProducerTexts ==
    {JoinLF(m \o ChunkRun(n) \o e) :
        m \in {<<>>, <<EventLine("meta")>>},
        n \in 0..MaxChunks,
        e \in {<<>>} \cup {<<EventLine(k)>> : k \in {"done", "error", "clarify"}}}

(* Prose, null, a blank line, objects that are not events, events the     *)
(* handler ignores, a chunk, a meta and a clarify without payload, an      *)
(* event padded with spaces.                                              *)
OtherLines ==
    {<<"hi">>, <<"null">>, <<>>, EventLine("bogus"), EventLine("noev"),
     EventLine("progress"), EventLine("ch-"), EventLine("meta-"),
     EventLine("clarify-"),
     <<SP>> \o EventLine("done") \o <<SP>>}

MixedTexts ==
    OtherLines
    \cup {JoinLF(<<EventLine("meta"), l, EventLine("chA")>>) : l \in OtherLines}

AssistantTexts == ProducerTexts \cup MixedTexts

(* What the assistant writes in a later turn of the chat: chunks and an     *)
(* error that continue the generation the first turn started, or the meta  *)
(* of a new generation.                                                    *)
LaterTexts ==
    {JoinLF(<<EventLine("chA"), EventLine("chB"), EventLine("error")>>),
     EventLine("meta")}

(* The texts the n-th message of the chat may carry. *)
TextsAt(n) == IF n <= 2 THEN AssistantTexts ELSE LaterTexts

IsPrefix(p, t) == Len(p) <= Len(t) /\ SubSeq(t, 1, Len(p)) = p

(* End of the line that starts after the first n characters of t. *)
NextLineEnd(t, n) ==
    LET lfs == {i \in (n + 1)..Len(t) : t[i] = LF}
    IN  IF lfs = {} THEN Len(t) ELSE CHOOSE i \in lfs : \A k \in lfs : i <= k

(***************************************************************************)
(* AIChatPanel, step by step.                                              *)
(***************************************************************************)
InitPanel ==
    /\ chatMessages = <<>>
    /\ status = "ready"
    /\ isGeneratingRules = FALSE
    /\ ruleContent = ""
    /\ eventOnlyMessageIds = {}
    /\ pendingEvents = <<>>
    /\ processedMessageIds = {}
    /\ timers = <<>>
    /\ effects = <<>>
    /\ session = 0
    /\ page = InitialPage
    /\ parses = <<>>
    /\ applied = <<>>
    /\ lastRun = [outcome |-> "none", id |-> NULL]
    /\ seenStreaming = {}
    /\ seenSettled = {}

panelState == <<isGeneratingRules, ruleContent, eventOnlyMessageIds, pendingEvents,
                processedMessageIds, timers, session, page>>
panelHistory == <<parses, applied, lastRun, seenStreaming, seenSettled>>

(* handleSend: sendMessage appends the user's message. *)
SendMessage ==
    /\ effects = <<>>
    /\ status # "streaming"
    /\ Len(chatMessages) < MaxMessages
    /\ chatMessages' = Append(chatMessages,
                              [id |-> MsgId(Len(chatMessages) + 1), role |-> "user",
                               parts |-> <<TextPartNoState(<<"q">>)>>])
    /\ status' = "submitted"
    /\ effects' = EffectsAfter(TRUE, status # "submitted", FALSE)
    /\ UNCHANGED <<panelState, panelHistory>>
    /\ UNCHANGED <<hookVars, chatVars>>

(* useChat appends the assistant's message: empty, with a step-start      *)
(* part, with a text part that starts streaming, or whole without state.  *)
AssistantBegins ==
    /\ effects = <<>>
    /\ status = "submitted"
    /\ Len(chatMessages) < MaxMessages
    /\ \E t \in TextsAt(Len(chatMessages) + 1) :
          \E ps \in {<<>>, <<StepStart>>, <<StepStart, TextPart("streaming", <<>>)>>,
                     <<TextPartNoState(t)>>} :
              chatMessages' = Append(chatMessages,
                                        [id |-> MsgId(Len(chatMessages) + 1),
                                         role |-> "assistant", parts |-> ps])
    /\ status' = "streaming"
    /\ effects' = EffectsAfter(TRUE, TRUE, FALSE)
    /\ UNCHANGED <<panelState, panelHistory>>
    /\ UNCHANGED <<hookVars, chatVars>>

(* The next part of the assistant's message arrives. *)
PartArrives ==
    /\ effects = <<>>
    /\ status = "streaming"
    /\ LastIsAssistant
    /\ ~HasTextPart(LastMessage.parts)
    /\ \E p \in (IF LastMessage.parts = <<>> THEN {StepStart} ELSE {})
                \cup {TextPart("streaming", <<>>)} :
          chatMessages' = [chatMessages EXCEPT ![Len(chatMessages)].parts = Append(@, p)]
    /\ effects' = EffectsAfter(TRUE, FALSE, FALSE)
    /\ UNCHANGED <<status, panelState, panelHistory>>
    /\ UNCHANGED <<hookVars, chatVars>>

(* The streaming text part grows by a line of what the assistant writes. *)
TextDelta ==
    /\ effects = <<>>
    /\ status = "streaming"
    /\ LastIsAssistant
    /\ LET parts == LastMessage.parts
           n == Len(parts)
       IN  /\ n > 0
           /\ parts[n].type = "text"
           /\ PartState(parts[n]) = "streaming"
           /\ \E t \in TextsAt(Len(chatMessages)) :
                 /\ IsPrefix(parts[n].text, t)
                 /\ parts[n].text # t
                 /\ chatMessages' =
                       [chatMessages EXCEPT ![Len(chatMessages)].parts[n].text =
                           SubSeq(t, 1, NextLineEnd(t, Len(parts[n].text)))]
    /\ effects' = EffectsAfter(TRUE, FALSE, FALSE)
    /\ UNCHANGED <<status, panelState, panelHistory>>
    /\ UNCHANGED <<hookVars, chatVars>>

(* The text part is complete: its state becomes 'done'. *)
TextEnd ==
    /\ effects = <<>>
    /\ status = "streaming"
    /\ LastIsAssistant
    /\ LET parts == LastMessage.parts
           n == Len(parts)
       IN  /\ n > 0
           /\ parts[n].type = "text"
           /\ PartState(parts[n]) = "streaming"
           /\ parts[n].text \in TextsAt(Len(chatMessages))
           /\ chatMessages' =
                 [chatMessages EXCEPT ![Len(chatMessages)].parts[n].state = "done"]
    /\ effects' = EffectsAfter(TRUE, FALSE, FALSE)
    /\ UNCHANGED <<status, panelState, panelHistory>>
    /\ UNCHANGED <<hookVars, chatVars>>

(* The response ends: status becomes 'ready', the messages stay. *)
Finish ==
    /\ effects = <<>>
    /\ status = "streaming"
    /\ LastIsAssistant
    /\ ~IsStreaming(LastMessage.parts)
    /\ status' = "ready"
    /\ effects' = EffectsAfter(FALSE, TRUE, FALSE)
    /\ UNCHANGED <<chatMessages, panelState, panelHistory>>
    /\ UNCHANGED <<hookVars, chatVars>>

(* The request fails: status becomes 'error', the messages stay. *)
StreamError ==
    /\ effects = <<>>
    /\ status \in {"submitted", "streaming"}
    /\ status' = "error"
    /\ effects' = EffectsAfter(FALSE, TRUE, FALSE)
    /\ UNCHANGED <<chatMessages, panelState, panelHistory>>
    /\ UNCHANGED <<hookVars, chatVars>>

(* The message effect (lines 342-470). *)
MonitorEffect ==
    /\ effects # <<>>
    /\ Head(effects) = "monitor"
    /\ effects' = Tail(effects)
    /\ IF ~LastIsAssistant
       THEN /\ lastRun' = [outcome |-> "not-assistant", id |-> NULL]
            /\ UNCHANGED <<processedMessageIds, pendingEvents, eventOnlyMessageIds,
                           parses, seenStreaming, seenSettled>>
       ELSE LET id == LastMessage.id
                parts == LastMessage.parts
                events == PartsEvents(parts)
            IN  /\ seenStreaming' = IF IsStreaming(parts)
                                    THEN seenStreaming \cup {id} ELSE seenStreaming
                /\ seenSettled' = IF HasTextPart(parts) /\ IsDone(parts)
                                  THEN seenSettled \cup {<<id, session>>}
                                  ELSE seenSettled
                /\ IF ~IsDone(parts)
                   THEN /\ lastRun' = [outcome |-> "incomplete", id |-> id]
                        /\ UNCHANGED <<processedMessageIds, pendingEvents,
                                       eventOnlyMessageIds, parses>>
                   ELSE IF id \in processedMessageIds
                   THEN /\ lastRun' = [outcome |-> "already", id |-> id]
                        /\ UNCHANGED <<processedMessageIds, pendingEvents,
                                       eventOnlyMessageIds, parses>>
                   ELSE /\ processedMessageIds' = processedMessageIds \cup {id}
                        /\ pendingEvents' = pendingEvents \o
                              [i \in 1..Len(events) |->
                                  [ev |-> events[i], src |-> id, parsedIn |-> session]]
                        /\ eventOnlyMessageIds' =
                              IF events # <<>> THEN eventOnlyMessageIds \cup {id}
                              ELSE eventOnlyMessageIds
                        /\ parses' = Append(parses, [id |-> id, session |-> session,
                                                     parts |-> parts])
                        /\ lastRun' = [outcome |-> "parsed", id |-> id]
    /\ UNCHANGED <<chatMessages, status, isGeneratingRules, ruleContent,
                   timers, session, page, applied>>
    /\ UNCHANGED <<hookVars, chatVars>>

(* The pending-events effect (lines 473-493): the callback it schedules   *)
(* holds the handleStreamingEvent of this render.                         *)
PendingEffect ==
    /\ effects # <<>>
    /\ Head(effects) = "pending"
    /\ effects' = Tail(effects)
    /\ IF Len(pendingEvents) > 0
       THEN /\ timers' = Append(timers, [events |-> pendingEvents,
                                         isGeneratingRules |-> isGeneratingRules,
                                         ruleContent |-> ruleContent])
            /\ pendingEvents' = <<>>
       ELSE UNCHANGED <<timers, pendingEvents>>
    /\ UNCHANGED <<chatMessages, status, isGeneratingRules, ruleContent,
                   eventOnlyMessageIds, processedMessageIds, session, page,
                   panelHistory>>
    /\ UNCHANGED <<hookVars, chatVars>>

(* A setTimeout callback runs: every event of its batch goes through the  *)
(* handleStreamingEvent it holds; React then applies the queued updates.  *)
TimerFire ==
    /\ effects = <<>>
    /\ timers # <<>>
    /\ LET timer == Head(timers)
           after == HandleBatch([isGeneratingRules |-> isGeneratingRules,
                                 ruleContent |-> ruleContent, page |-> page],
                                timer.events,
                                [isGeneratingRules |-> timer.isGeneratingRules,
                                 ruleContent |-> timer.ruleContent])
       IN  /\ isGeneratingRules' = after.isGeneratingRules
           /\ ruleContent' = after.ruleContent
           /\ page' = after.page
           /\ applied' = applied \o
                 [i \in 1..Len(timer.events) |->
                     [ev |-> timer.events[i].ev, src |-> timer.events[i].src,
                      parsedIn |-> timer.events[i].parsedIn, handledIn |-> session]]
           /\ effects' = EffectsAfter(FALSE, FALSE,
                                      after.isGeneratingRules # isGeneratingRules
                                      \/ after.ruleContent # ruleContent)
    /\ timers' = Tail(timers)
    /\ UNCHANGED <<chatMessages, status, eventOnlyMessageIds, pendingEvents,
                   processedMessageIds, session, parses, lastRun, seenStreaming,
                   seenSettled>>
    /\ UNCHANGED <<hookVars, chatVars>>

(* The page's handleResetSession (page.tsx lines 146-149): the panel's     *)
(* resetSession (lines 538-549), which ends with onRuleGenerationEnd, and  *)
(* then setClarifyMessage(null).                                           *)
ResetSession ==
    /\ effects = <<>>
    /\ session < MaxResets
    /\ isGeneratingRules' = FALSE
    /\ ruleContent' = ""
    /\ processedMessageIds' = {}
    /\ eventOnlyMessageIds' = {}
    /\ page' = [handleRuleGenerationEnd(page) EXCEPT !.clarifyMessage = NullObject]
    /\ session' = session + 1
    /\ effects' = EffectsAfter(FALSE, FALSE, isGeneratingRules \/ ruleContent # "")
    /\ UNCHANGED <<chatMessages, status, pendingEvents, timers, panelHistory>>
    /\ UNCHANGED <<hookVars, chatVars>>

NextPanel ==
    \/ SendMessage
    \/ AssistantBegins
    \/ PartArrives
    \/ TextDelta
    \/ TextEnd
    \/ Finish
    \/ StreamError
    \/ MonitorEffect
    \/ PendingEffect
    \/ TimerFire
    \/ ResetSession

(***************************************************************************)
(* AIController.chat and AIService.generateStream.  A JavaScript value of   *)
(* the request body is a record tagged with its kind; an absent property   *)
(* is a missing field; a temperature is counted in tenths.                 *)
(***************************************************************************)
Str(x) == [kind |-> "string", str |-> x]
Arr(x) == [kind |-> "array", items |-> x]
Obj(x) == [kind |-> "object", fields |-> x]

(* !!v for a value of the body *)
TruthyValue(v) ==
    /\ v.kind \notin {"null", "undefined"}
    /\ ~(v.kind = "string" /\ v.str = "")

(* The part of an object under the given property names. *)
Only(obj, names) == [k \in (DOMAIN obj) \cap names |-> obj[k]]

UserText == [role |-> "user", id |-> "u1",
             parts |-> <<[type |-> "text", text |-> "hi"]>>]
AssistantText == [role |-> "assistant", id |-> "a1",
                  parts |-> <<[type |-> "text", text |-> "ok"]>>]
UserEmpty == [role |-> "user", id |-> "u2", parts |-> <<>>]
UserContent == [role |-> "user", id |-> "u3", content |-> "hi"]

MessageKinds == {UserText, AssistantText, UserEmpty, UserContent, NullObject}
MessageLists == SeqsUpTo(MessageKinds, MaxChatMessages)

DefaultTemperature == 3
Groq == "groq"

OptionFields ==
    {t @@ m @@ p @@ n :
        t \in {<<>>, [temperature |-> 0], [temperature |-> 7]},
        m \in {<<>>, [maxTokens |-> 0], [maxTokens |-> 100]},
        p \in {<<>>, [provider |-> Groq], [provider |-> "openai"]},
        n \in {<<>>, [model |-> "llama-3.1-8b-instant"]}}

MessageFields ==
    {<<>>}
    \cup {[messages |-> Arr(l)] : l \in MessageLists}
    \cup {[messages |-> Str("x")], [messages |-> Str("x"), message |-> Str("hi")],
          [messages |-> Arr(<<>>), message |-> Str("hi")]}
    \cup {[message |-> v] : v \in {Str("hi"), Str(""), Obj([text |-> "hi"]),
                                   [kind |-> "null"]}}

Bodies ==
    {Arr(l) : l \in MessageLists}
    \cup {Obj(f @@ o) : f \in MessageFields, o \in OptionFields}
    \cup {Str("hi"), [kind |-> "null"], [kind |-> "undefined"], [kind |-> "number"]}

(* JSON.stringify of the one object a `message` is here *)
Stringify(v) == "{\"text\":\"hi\"}"

(* Lines 70-106: messages and options of the body, or the thrown error. *)
ParseBody(b) ==
    IF b.kind = "array"
    THEN [ok |-> TRUE, messages |-> b.items, options |-> <<>>]
    ELSE IF b.kind = "object"
    THEN LET o == b.fields
             opts == Only(o, {"model", "provider", "temperature", "maxTokens"})
         IN  IF "messages" \in DOMAIN o /\ TruthyValue(o.messages)
                /\ o.messages.kind = "array"
             THEN [ok |-> TRUE, messages |-> o.messages.items, options |-> opts]
             ELSE IF "message" \in DOMAIN o /\ TruthyValue(o.message)
             THEN [ok |-> TRUE,
                   messages |->
                       <<[role |-> "user", id |-> "user-msg",
                          parts |-> <<[type |-> "text",
                                       text |-> IF o.message.kind = "string"
                                                THEN o.message.str
                                                ELSE Stringify(o.message)]>>]>>,
                   options |-> opts]
             ELSE [ok |-> FALSE, error |-> "No messages found in request body"]
    ELSE [ok |-> FALSE, error |-> "Invalid body format"]

(* The checks on the last message without the one on its role. *)
ValidateLastAnyRole(msgs) ==
    IF msgs = <<>> \/ msgs[Len(msgs)] = NullObject
    THEN "Last message must be from user"
    ELSE LET lastMessage == msgs[Len(msgs)]
             messageContent == OrElse(Prop(lastMessage, "content"), "")
             hasParts == "parts" \in DOMAIN lastMessage /\ Len(lastMessage.parts) > 0
         IN  IF messageContent = "" /\ ~hasParts
             THEN "Last message must have content"
             ELSE "ok"

(* Lines 115-128: the text of the 400 response, or "ok". *)
ValidateLast(msgs) ==
    IF msgs = <<>> \/ msgs[Len(msgs)] = NullObject
    THEN "Last message must be from user"
    ELSE LET lastMessage == msgs[Len(msgs)]
             messageContent == OrElse(Prop(lastMessage, "content"), "")
             hasParts == "parts" \in DOMAIN lastMessage /\ Len(lastMessage.parts) > 0
         IN  IF lastMessage.role # "user" THEN "Last message must be from user"
             ELSE IF messageContent = "" /\ ~hasParts
             THEN "Last message must have content"
             ELSE "ok"

(* Lines 138-148: the argument of aiService.generateStream. *)
GenerateStreamArgs(msgs, opts) ==
    [messages |-> msgs, system |-> "chat",
     temperature |-> IF "temperature" \in DOMAIN opts /\ opts.temperature # 0
                     THEN opts.temperature ELSE DefaultTemperature,
     parallelToolCalls |-> TRUE, serviceTier |-> "flex"]
    @@ Only(opts, {"model", "provider", "maxTokens"})

(* createAIModel: the provider defaults to Groq; another one throws. *)
CreateModelThrows(o) == "provider" \in DOMAIN o /\ o.provider # Groq
CreateModel(o) ==
    [provider |-> Groq,
     modelName |-> IF "model" \in DOMAIN o THEN o.model ELSE "llama-3.3-70b-versatile"]

(* AIService.generateStream, lines 123-147: what streamText is called with. *)
StreamOptions(o) ==
    [model |-> CreateModel(o), messages |-> o.messages, system |-> o.system,
     temperature |-> o.temperature]
    @@ (IF "maxTokens" \in DOMAIN o /\ o.maxTokens # 0
        THEN [maxTokens |-> o.maxTokens] ELSE <<>>)
    @@ (IF "provider" \in DOMAIN o /\ o.provider = Groq
        THEN [providerOptions |->
                 [groq |-> [parallelToolCalls |-> o.parallelToolCalls,
                            serviceTier |-> o.serviceTier]]]
        ELSE <<>>)

InitChat ==
    /\ chatPc = "idle"
    /\ reqBody = [kind |-> "undefined"]
    /\ messages = <<>>
    /\ options = <<>>
    /\ res = Undefined
    /\ streamOptions = Undefined

(* POST /ai/chat arrives with a body. *)
ChatRequest ==
    /\ chatPc = "idle"
    /\ \E b \in Bodies : reqBody' = b
    /\ chatPc' = "parse"
    /\ UNCHANGED <<messages, options, res, streamOptions>>
    /\ UNCHANGED <<hookVars, panelVars>>

(* The first try block: the body's messages and options, or 400. *)
ChatParses ==
    /\ chatPc = "parse"
    /\ LET r == ParseBody(reqBody)
       IN  IF r.ok
           THEN /\ messages' = r.messages
                /\ options' = r.options
                /\ chatPc' = "validate"
                /\ UNCHANGED res
           ELSE /\ res' = [status |-> 400, body |-> "Invalid request body format"]
                /\ chatPc' = "done"
                /\ UNCHANGED <<messages, options>>
    /\ UNCHANGED <<reqBody, streamOptions>>
    /\ UNCHANGED <<hookVars, panelVars>>

(* The checks on the last message: 400, or on to the generation. *)
ChatValidates ==
    /\ chatPc = "validate"
    /\ LET v == ValidateLast(messages)
       IN  IF v = "ok"
           THEN chatPc' = "generate" /\ UNCHANGED res
           ELSE res' = [status |-> 400, body |-> v] /\ chatPc' = "done"
    /\ UNCHANGED <<reqBody, messages, options, streamOptions>>
    /\ UNCHANGED <<hookVars, panelVars>>

(* aiService.generateStream reaches streamText. *)
ChatGenerates ==
    /\ chatPc = "generate"
    /\ LET o == GenerateStreamArgs(messages, options)
       IN  /\ ~CreateModelThrows(o)
           /\ streamOptions' = StreamOptions(o)
    /\ chatPc' = "pipe"
    /\ UNCHANGED <<reqBody, messages, options, res>>
    /\ UNCHANGED <<hookVars, panelVars>>

(* stream.pipeUIMessageStreamToResponse(res) *)
ChatPipes ==
    /\ chatPc = "pipe"
    /\ res' = [status |-> 200, body |-> "stream"]
    /\ chatPc' = "done"
    /\ UNCHANGED <<reqBody, messages, options, streamOptions>>
    /\ UNCHANGED <<hookVars, panelVars>>

(* Something in the second try block throws (loadTemplate,                 *)
(* convertToModelMessages, createAIModel, streamText, the pipe): 500.      *)
ChatFails ==
    /\ chatPc \in {"generate", "pipe"}
    /\ res' = [status |-> 500, body |-> "Internal server error"]
    /\ chatPc' = "done"
    /\ UNCHANGED <<reqBody, messages, options, streamOptions>>
    /\ UNCHANGED <<hookVars, panelVars>>

NextChat ==
    \/ ChatRequest
    \/ ChatParses
    \/ ChatValidates
    \/ ChatGenerates
    \/ ChatPipes
    \/ ChatFails

Init == InitHook /\ InitPanel /\ InitChat

SpecHook == Init /\ [][NextHook]_vars

SpecPanel == Init /\ [][NextPanel]_vars

SpecChat == Init /\ [][NextChat]_vars

SpecSession == Init /\ [][NextSession]_vars

SpecOperations == Init /\ [][NextOperations]_vars

(***************************************************************************)
(* Claims about generateRule.                                              *)
(***************************************************************************)
IsDataLineOf(l, keys) == \E k \in keys : l = DataLine(k)
ChunkOfLine(l) == ChunkOf[l[2]]

ErrorLineHanded == \E i \in 1..Len(handed) : handed[i] = DataLine("err")
TerminalKeys == {"peF", "peF0", "peF-"}
TerminalHanded == \E i \in 1..Len(handed) : IsDataLineOf(handed[i], TerminalKeys)

(* The line-feed-terminated lines of a text and the text after its last   *)
(* line feed, by the positions of the line feeds.                         *)
LFPositions(t) == {i \in 1..Len(t) : t[i] = LF}
LFBefore(t, i) == Cardinality({j \in LFPositions(t) : j < i})
NthLF(t, k) == CHOOSE i \in LFPositions(t) : LFBefore(t, i) = k - 1
TerminatedLines(t) ==
    [k \in 1..Cardinality(LFPositions(t)) |->
        SubSeq(t, (IF k = 1 THEN 0 ELSE NthLF(t, k - 1)) + 1, NthLF(t, k) - 1)]
AfterLastLF(t) ==
    LET ps == LFPositions(t)
        last == IF ps = {} THEN 0 ELSE CHOOSE i \in ps : \A j \in ps : j <= i
    IN  SubSeq(t, last + 1, Len(t))

(* C1: when a line `data: {"type":"error","errorText":"boom"}` has been    *)
(* received (the observer not interfering), isGenerating is false and the  *)
(* call does not resolve: it is rejected, with message "boom", which is    *)
(* also SessionState.error.                                                *)
C1_ErrorShortCircuit ==
    (ErrorLineHanded /\ onChunk # "throws") =>
        /\ ~state.isGenerating
        /\ pc # "resolved"
        /\ pc = "rejected" => (outcome = [rejected |-> "boom"] /\ state.error = "boom")

(* C2: a call whose stream ended without phase-end(follow-up-message)      *)
(* having been received does not resolve with a result.                    *)
C2_ProtocolFailureRejects == pc = "resolved" => TerminalHanded

(* C3: whatever the fragments, the text decoded so far is a prefix of the  *)
(* text sent (all of it once every byte is read), the lines handed to the  *)
(* line parser so far followed by those about to be handed are exactly the *)
(* LF-terminated lines of the text decoded so far, in order, and after     *)
(* each fragment the carry-over buffer is the text after its last LF.      *)
C3_LineReassembly ==
    pc \in {"read", "lines", "resolved"} =>
        /\ Len(decoded) <= Len(text)
        /\ decoded = SubSeq(text, 1, Len(decoded))
        /\ (pos = Len(body) => decoded = text)
        /\ handed \o lines = TerminatedLines(decoded)
        /\ buffer = AfterLastLF(decoded)

(* C3 witness: one line has been handed on, the buffer carries the start   *)
(* of the next line and the rest of that line is still to be read.         *)
C3_Witness ==
    /\ pc = "read"
    /\ Len(handed) = 1
    /\ buffer # <<>>
    /\ pos < Len(body)
    /\ body[pos + 1] # LF
    /\ LF \in {body[i] : i \in (pos + 1)..Len(body)}

(* C4: the step that handles a `data: ` line whose payload is not valid    *)
(* JSON, or is null, changes no field of SessionState and no accumulator,  *)
(* and leaves the call reading (it neither ends the loop nor settles the   *)
(* promise); and a call that received content(c1), one such line,          *)
(* content(c2) and nothing else resolves with ruleContent = c1 + c2 (the   *)
(* observer, if any, returning normally).                                  *)
C4_MalformedStep ==
    (pc = "lines" /\ Head(lines) \in MalformedLines) =>
        /\ state' = state
        /\ currentRuleContent' = currentRuleContent
        /\ currentFollowUpContent' = currentFollowUpContent
        /\ metadata' = metadata
        /\ buffer' = buffer
        /\ outcome' = outcome
        /\ pc' \in {"lines", "read"}

C4_Sandwich ==
    \A k1, k2 \in {"rcA", "rcB"} : \A m \in MalformedLines :
        (pc = "resolved" /\ onChunk # "throws"
            /\ handed = <<DataLine(k1), m, DataLine(k2)>>) =>
            /\ outcome.resolved.ruleContent = ChunkOf[k1].content \o ChunkOf[k2].content
            /\ state.ruleContent = ChunkOf[k1].content \o ChunkOf[k2].content
            /\ state.error = NULL

C4_MalformedLineTolerance == [][C4_MalformedStep]_vars /\ []C4_Sandwich

C4_Witness ==
    /\ pc = "resolved"
    /\ handed = <<DataLine("rcA"), <<DataPrefix, "rcA">>, DataLine("rcB")>>
    /\ outcome.resolved.ruleContent = "ab"

(* C9: a call that received exactly the producer's sequence                *)
(* phase-start(rule-generation, M), rule-content*, phase-end(rule-         *)
(* generation, R), phase-start(follow-up-message), follow-up-content*,     *)
(* phase-end(follow-up-message, F) resolves with ruleContent = R,          *)
(* followUpMessage = F, ruleType = M.ruleType, fileName = M.fileName.      *)
C9_TerminalCompleteness ==
    (pc = "resolved" /\ onChunk # "throws" /\ text \in ProducerStreams) =>
        LET ruleEnd == CHOOSE i \in 1..Len(handed) :
                          IsDataLineOf(handed[i], {"peR", "peR0"})
            M == ChunkOfLine(handed[1]).metadata
            R == ChunkOfLine(handed[ruleEnd]).finalContent
            F == ChunkOfLine(handed[Len(handed)]).finalContent
        IN  outcome.resolved = [ruleContent |-> R, followUpMessage |-> F,
                                ruleType |-> M.ruleType, fileName |-> M.fileName]

(* C10: once phase-end(follow-up-message) has been received, the step     *)
(* that handles a later rule-content, follow-up-content or phase-end      *)
(* event changes neither the accumulators the result is built from nor     *)
(* SessionState.                                                           *)
C10_LateEventStep ==
    (pc = "lines" /\ TerminalHanded /\ onChunk # "throws"
        /\ IsDataLineOf(Head(lines), {"rcA", "rcB", "rc0", "fcC", "peR", "peR0",
                                      "peR-", "peF", "peF0", "peF-"})) =>
        /\ state' = state
        /\ currentRuleContent' = currentRuleContent
        /\ currentFollowUpContent' = currentFollowUpContent

C10_ResultFixedAtTerminal == [][C10_LateEventStep]_vars

PhaseEndKeys == {"peR", "peR0", "peR-", "peF", "peF0", "peF-"}

(* C11: the step that handles a phase-end event (the observer not          *)
(* interfering) sets the phase's content to the event's finalContent when  *)
(* the event supplies one, the empty string included, and to the           *)
(* accumulator when it supplies none; for rule-generation on ruleContent,  *)
(* for follow-up-message on followUpContent.                               *)
C11_PhaseEndStep ==
    (pc = "lines" /\ onChunk # "throws" /\ IsDataLineOf(Head(lines), PhaseEndKeys)) =>
        LET chunk == ChunkOfLine(Head(lines))
            supplied == "finalContent" \in DOMAIN chunk
        IN  IF chunk.phase = "rule-generation"
            THEN state'.ruleContent =
                    IF supplied THEN chunk.finalContent ELSE currentRuleContent
            ELSE state'.followUpContent =
                    IF supplied THEN chunk.finalContent ELSE currentFollowUpContent

C11_PhaseEndOverride == [][C11_PhaseEndStep]_vars

(* C12: after the step that handles phase-start(rule-generation), in any   *)
(* state (the observer not interfering), isStreamingRule is true, the      *)
(* phase is rule-generation, ruleContent and followUpContent are empty,    *)
(* error is null and metadata is the event's metadata.                     *)
C12_PhaseStartStep ==
    (pc = "lines" /\ onChunk # "throws" /\ IsDataLineOf(Head(lines), {"psR", "psR-"})) =>
        /\ state'.isStreamingRule
        /\ state'.currentPhase = "rule-generation"
        /\ state'.ruleContent = ""
        /\ state'.followUpContent = ""
        /\ state'.error = NULL
        /\ state'.metadata = PropObj(ChunkOfLine(Head(lines)), "metadata")

C12_PhaseStartClears == [][C12_PhaseStartStep]_vars

(* C13: isStreamingRule and isStreamingFollowUp are never both true.       *)
C13_SingleStreamingPhase == ~(state.isStreamingRule /\ state.isStreamingFollowUp)

(* C14: on a stream the producer's state machine emits, a step changes     *)
(* followUpContent only while currentPhase is follow-up-message, after     *)
(* phase-end(rule-generation) and then phase-start(follow-up-message)      *)
(* have been handled; never while currentPhase is rule-generation.         *)
C14_FollowUpStep ==
    (text \in ProducerStreams /\ state'.followUpContent # state.followUpContent) =>
        /\ state.currentPhase = "follow-up-message"
        /\ \E i, j \in 1..Len(handed) :
              /\ i < j
              /\ IsDataLineOf(handed[i], {"peR", "peR0"})
              /\ handed[j] = DataLine("psF")

C14_PhaseOrdering == [][C14_FollowUpStep]_vars

(* A follow-up-content event of a producer's stream has been appended. *)
C14_Witness ==
    /\ text \in ProducerStreams
    /\ handed # <<>>
    /\ handed[Len(handed)] = DataLine("fcC")
    /\ state.followUpContent = "c"
    /\ state.currentPhase = "follow-up-message"

ContentKeys == {k \in ChunkKeys : "content" \in DOMAIN ChunkOf[k]}
(* t is s with the content of one content event appended (or s itself). *)
IsExtension(s, t) == \E k \in ContentKeys : t = s \o ChunkOf[k].content

(* C15: the step that handles a rule-content event with non-empty content  *)
(* c changes ruleContent to ruleContent + c, and one with empty content    *)
(* changes nothing; the same for follow-up-content and followUpContent;    *)
(* and every step that handles a line other than a phase-end leaves each   *)
(* content a prefix of its new value (the observer not interfering).       *)
C15_ContentStep ==
    (pc = "lines" /\ onChunk # "throws") =>
        LET l == Head(lines)
        IN  /\ IsDataLineOf(l, {"rcA", "rcB", "rc0"}) =>
                 /\ state'.ruleContent = state.ruleContent \o ChunkOfLine(l).content
                 /\ state'.followUpContent = state.followUpContent
                 /\ ChunkOfLine(l).content = "" =>
                       /\ state' = state
                       /\ currentRuleContent' = currentRuleContent
            /\ IsDataLineOf(l, {"fcC", "fc0"}) =>
                 /\ state'.followUpContent =
                       state.followUpContent \o ChunkOfLine(l).content
                 /\ state'.ruleContent = state.ruleContent
                 /\ ChunkOfLine(l).content = "" =>
                       /\ state' = state
                       /\ currentFollowUpContent' = currentFollowUpContent
            /\ ~IsDataLineOf(l, PhaseEndKeys) =>
                 /\ IsExtension(state.ruleContent, state'.ruleContent)
                 /\ IsExtension(state.followUpContent, state'.followUpContent)

C15_AppendOnly == [][C15_ContentStep]_vars

(* Two rule-content events have been appended in order. *)
C15_Witness ==
    /\ onChunk = "returns"
    /\ handed = <<DataLine("rcA"), <<DataPrefix, "rcA">>, DataLine("rcB")>>
    /\ state.ruleContent = "ab"

(* C16, first part: the lines handled so far are the first lines of the    *)
(* stream, in the stream's order.                                          *)
C16_HandedInOrder ==
    /\ Len(handed) <= Len(TerminatedLines(text))
    /\ handed = SubSeq(TerminatedLines(text), 1, Len(handed))

(* C16, second part: a read is issued only when every line of the earlier  *)
(* fragments has been handled, and the step that handles a line applies    *)
(* the next line of the stream, and that line only, to SessionState as it  *)
(* is.                                                                     *)
C16_OrderStep ==
    /\ pos' # pos => (pc = "read" /\ lines = <<>>)
    /\ handed' # handed =>
          /\ Len(handed) < Len(TerminatedLines(text))
          /\ LET next == TerminatedLines(text)[Len(handed) + 1]
                 r == HandleLine([state |-> state,
                                  currentRuleContent |-> currentRuleContent,
                                  currentFollowUpContent |-> currentFollowUpContent,
                                  metadata |-> metadata], next, onChunk)
             IN  /\ handed' = Append(handed, next)
                 /\ state' = r.state
                 /\ currentRuleContent' = r.currentRuleContent
                 /\ currentFollowUpContent' = r.currentFollowUpContent
                 /\ metadata' = r.metadata
                 /\ observed' = observed \o r.seen

(* C16: strict arrival order: events are applied in the order of their     *)
(* lines in the stream, and all lines of a fragment are handled before     *)
(* the next read.                                                          *)
C16_StrictArrivalOrder == []C16_HandedInOrder /\ [][C16_OrderStep]_vars

(* rule-content "a" then phase-end(rule-generation, "R") have been applied *)
(* in that order (the other order would leave "Ra").                       *)
C16_Witness ==
    /\ onChunk = "returns"
    /\ pc = "read"
    /\ handed = <<DataLine("rcA"), DataLine("peR")>>
    /\ state.ruleContent = "R"

(* C17: a call whose response is not ok or has no body is rejected with    *)
(* no line handled and no event observed, and leaves isGenerating,         *)
(* isStreamingRule and isStreamingFollowUp false, the phase idle,          *)
(* ruleContent and followUpContent empty and error = the failure message.  *)
C17_TransportFailure ==
    \A m \in {"HTTP 500: Internal Server Error", "Response body is null"} :
        (pc = "rejected" /\ outcome = [rejected |-> m]) =>
            /\ handed = <<>>
            /\ observed = <<>>
            /\ ~state.isGenerating
            /\ ~state.isStreamingRule
            /\ ~state.isStreamingFollowUp
            /\ state.currentPhase = "idle"
            /\ state.ruleContent = ""
            /\ state.followUpContent = ""
            /\ state.error = m

C17_Witness ==
    /\ pc = "rejected"
    /\ outcome = [rejected |-> "Response body is null"]
    /\ state.error = "Response body is null"

(* Events of the fixed set: every chunk but the one of unknown type. *)
FixedSetKeys == {k \in ChunkKeys : ChunkOf[k].type \in
                    {"phase-start", "rule-content", "follow-up-content",
                     "phase-end", "error"}}

(* C18: the step that handles a line decoding to an event of the fixed     *)
(* set, with an observer given, calls onChunk once with that event and     *)
(* reduces the event, whether onChunk returns or throws.                   *)
C18_ObserverStep ==
    (pc = "lines" /\ onChunk # "absent" /\ IsDataLineOf(Head(lines), FixedSetKeys)) =>
        LET chunk == ChunkOfLine(Head(lines))
            r == ReduceChunk([state |-> state,
                              currentRuleContent |-> currentRuleContent,
                              currentFollowUpContent |-> currentFollowUpContent,
                              metadata |-> metadata], chunk)
        IN  /\ observed' = Append(observed, chunk)
            /\ state' = r.state
            /\ currentRuleContent' = r.currentRuleContent
            /\ currentFollowUpContent' = r.currentFollowUpContent
            /\ metadata' = r.metadata

C18_ObserverCallback == [][C18_ObserverStep]_vars

(* C19, generateRule: the step that handles a line whose JSON is a valid   *)
(* object with a type outside the fixed set calls no observer and changes  *)
(* neither SessionState nor an accumulator.                                *)
C19_HookStep ==
    (pc = "lines" /\ Head(lines) = DataLine("unk")) =>
        /\ observed' = observed
        /\ state' = state
        /\ currentRuleContent' = currentRuleContent
        /\ currentFollowUpContent' = currentFollowUpContent
        /\ metadata' = metadata

(* C21: a reset() step leaves exactly the idle state, whatever the state   *)
(* it is called in: no flag set, phase idle, both contents empty, no       *)
(* error, no metadata.                                                     *)
C21_ResetStep ==
    resets' = resets + 1 =>
        state' = [isGenerating |-> FALSE, isStreamingRule |-> FALSE,
                  isStreamingFollowUp |-> FALSE, currentPhase |-> "idle",
                  ruleContent |-> "", followUpContent |-> "", error |-> NULL,
                  metadata |-> Undefined]

C21_ResetYieldsIdle == [][C21_ResetStep]_vars

C21_Witness ==
    /\ resets = 1
    /\ pc = "rejected"
    /\ currentRuleContent # ""
    /\ metadata # Undefined
    /\ state = InitialState

(* C23: the step that starts a further generateRule call leaves nothing of *)
(* the earlier request in the state: no metadata, no streaming flag, no    *)
(* content, no error.                                                      *)
C23_NewRequestStep ==
    (calls >= 1 /\ calls' = calls + 1) =>
        /\ state'.metadata = Undefined
        /\ ~state'.isStreamingRule
        /\ ~state'.isStreamingFollowUp
        /\ state'.ruleContent = ""
        /\ state'.followUpContent = ""
        /\ state'.error = NULL

C23_NewRequestReset == [][C23_NewRequestStep]_vars

(* C24: when a read fails, the step keeps ruleContent, followUpContent and *)
(* metadata as they were, clears isGenerating and both streaming flags,    *)
(* sets phase idle and the error, and rejects the call; the state then     *)
(* stays as it is until reset() or a new generateRule call.                *)
C24_CancelStep ==
    /\ (pc = "read" /\ pc' = "rejected") =>
          /\ state'.ruleContent = state.ruleContent
          /\ state'.followUpContent = state.followUpContent
          /\ state'.metadata = state.metadata
          /\ ~state'.isGenerating
          /\ ~state'.isStreamingRule
          /\ ~state'.isStreamingFollowUp
          /\ state'.currentPhase = "idle"
          /\ state'.error = "network error"
          /\ outcome' = [rejected |-> "network error"]
    /\ (pc = "rejected" /\ resets' = resets /\ calls' = calls) => state' = state

C24_CancellationKeepsContent == [][C24_CancelStep]_vars

C24_Witness ==
    /\ pc = "rejected"
    /\ outcome = [rejected |-> "network error"]
    /\ resets = 0
    /\ calls = 1
    /\ state.ruleContent = "a"
    /\ state.metadata = MetaFull
    /\ state.error = "network error"

(* The lines of ls handled one after the other, as the for loop does. *)
RECURSIVE RunLines(_, _, _)
RunLines(c, ls, observer) ==
    IF ls = <<>> THEN c
    ELSE RunLines(HandleLine(c, Head(ls), observer), Tail(ls), observer)

(* C30: when the call has resolved, the lines handled are the LF-          *)
(* terminated lines of the whole text and nothing else, and the state and  *)
(* the result are what those lines alone produce: the text after the last  *)
(* LF has not been parsed or applied.                                      *)
C30_UnterminatedDiscarded ==
    pc = "resolved" =>
        LET r == RunLines([state |-> Started(InitialState),
                           currentRuleContent |-> "",
                           currentFollowUpContent |-> "",
                           metadata |-> Undefined],
                          TerminatedLines(text), onChunk)
        IN  /\ decoded = text
            /\ handed = TerminatedLines(text)
            /\ state = r.state
            /\ outcome = [resolved |-> Result(r.currentRuleContent,
                                              r.currentFollowUpContent, r.metadata)]

C30_Witness ==
    /\ pc = "resolved"
    /\ AfterLastLF(text) = DataLine("peF")
    /\ handed = <<DataLine("psF")>>
    /\ state.currentPhase = "follow-up-message"
    /\ state.isGenerating

(* C31: once an error event has been applied (the observer not             *)
(* interfering), the step that handles a later line of the same stream     *)
(* changes no field of SessionState: isGenerating and both streaming flags *)
(* stay false, the phase stays idle and error keeps the error text.        *)
C31_LaterEventStep ==
    (pc = "lines" /\ ErrorLineHanded /\ onChunk # "throws") =>
        /\ state' = state
        /\ ~state'.isGenerating
        /\ ~state'.isStreamingRule
        /\ ~state'.isStreamingFollowUp
        /\ state'.currentPhase = "idle"
        /\ state'.error = "boom"

C31_ErrorAbsorbing == [][C31_LaterEventStep]_vars

(* C32: when the call has settled, resolved or rejected, isGenerating and  *)
(* both streaming flags are false, whatever the stream carried.            *)
C32_SettledFlags ==
    pc \in {"resolved", "rejected"} =>
        /\ ~state.isGenerating
        /\ ~state.isStreamingRule
        /\ ~state.isStreamingFollowUp

(* C38: after a reset() made while a generateRule call reads its stream,   *)
(* and until a new call starts, the step that handles a line of the        *)
(* abandoned stream leaves the state equal to the idle literal: no event   *)
(* that arrives later changes a field, and no content accumulated before   *)
(* the reset comes back.                                                   *)
C38_AbandonedStreamStep ==
    (resets >= 1 /\ pc = "lines" /\ state = InitialState) =>
        state' = InitialState

C38_ResetInFlight == [][C38_AbandonedStreamStep]_vars

(* C39: under generateRule, reset and setRuleContent in any order, a       *)
(* completed phase means that nothing is generating or streaming, and an   *)
(* idle phase means that nothing is streaming.                             *)
C39_PhaseFlagConsistency ==
    /\ state.currentPhase = "completed" =>
          /\ ~state.isGenerating
          /\ ~state.isStreamingRule
          /\ ~state.isStreamingFollowUp
    /\ state.currentPhase = "idle" =>
          /\ ~state.isStreamingRule
          /\ ~state.isStreamingFollowUp

(***************************************************************************)
(* Claims about AIChatPanel.                                               *)
(***************************************************************************)
AssistantIds ==
    {chatMessages[i].id : i \in {k \in DOMAIN chatMessages :
                                    chatMessages[k].role = "assistant"}}
MessageOf(id) == chatMessages[CHOOSE i \in DOMAIN chatMessages : chatMessages[i].id = id]

(* A run of the message effect is a step from a state whose next effect   *)
(* is "monitor".                                                          *)
MonitorRuns == effects # <<>> /\ Head(effects) = "monitor"
(* The message effect has run on the messages as they are now. *)
MonitorHasRun == effects = <<>> \/ Head(effects) # "monitor"

(* The message has a text part and all its text parts are 'done'. *)
Settled(msg) ==
    /\ HasTextPart(msg.parts)
    /\ \A i \in DOMAIN msg.parts :
          msg.parts[i].type = "text" => PartState(msg.parts[i]) = "done"

(* Runs in session s that passed both guards on message id as it is now. *)
ParsesOf(id, s) ==
    {i \in DOMAIN parses : /\ parses[i].id = id
                           /\ parses[i].session = s
                           /\ parses[i].parts = MessageOf(id).parts}
(* Events of message id parsed in session s: waiting, scheduled, handled. *)
WaitingOf(id, s) ==
    Cardinality({i \in DOMAIN pendingEvents :
                    pendingEvents[i].src = id /\ pendingEvents[i].parsedIn = s})
ScheduledOf(id, s) ==
    Cardinality({<<k, i>> \in (DOMAIN timers) \X (1..(MaxChunks + 4)) :
                    /\ i \in DOMAIN timers[k].events
                    /\ timers[k].events[i].src = id
                    /\ timers[k].events[i].parsedIn = s})
HandledOf(id, s) == SelectSeq(applied, LAMBDA a : a.src = id /\ a.parsedIn = s)

(* C5, first part: within a session, once the message effect has run on    *)
(* the settled message id, the message has been parsed by exactly one run  *)
(* and each of its events is waiting, scheduled or handled exactly once.   *)
C5_ExactlyOnce ==
    \A id \in AssistantIds :
        (<<id, session>> \in seenSettled /\ Settled(MessageOf(id))) =>
            /\ Cardinality(ParsesOf(id, session)) = 1
            /\ WaitingOf(id, session) + ScheduledOf(id, session)
                  + Len(HandledOf(id, session))
               = Len(PartsEvents(MessageOf(id).parts))

(* C5, second part: a run on an id already in processedMessageIds         *)
(* enqueues nothing.                                                      *)
C5_ReevaluationStep ==
    (MonitorRuns /\ LastIsAssistant /\ LastMessage.id \in processedMessageIds)
        => pendingEvents' = pendingEvents

(* C5: dedup guard: each settled message's events are enqueued and        *)
(* applied exactly once per session, however often the message effect     *)
(* re-runs on it, and a re-evaluation of a processed id enqueues nothing.  *)
C5_DedupGuard == []C5_ExactlyOnce /\ [][C5_ReevaluationStep]_vars

(* C6: completion gate safety: a run of the message effect on a last       *)
(* assistant message with a text part whose state is not 'done' parses no  *)
(* line and leaves processedMessageIds, pendingEvents and                  *)
(* eventOnlyMessageIds as they were.                                       *)
C6_GateStep ==
    (/\ MonitorRuns
     /\ LastIsAssistant
     /\ \E i \in DOMAIN LastMessage.parts :
           /\ LastMessage.parts[i].type = "text"
           /\ PartState(LastMessage.parts[i]) # "done")
    => /\ processedMessageIds' = processedMessageIds
       /\ pendingEvents' = pendingEvents
       /\ eventOnlyMessageIds' = eventOnlyMessageIds
       /\ parses' = parses

C7_ParseOnce ==
    \A id \in AssistantIds \cap seenStreaming :
        (<<id, session>> \in seenSettled /\ Settled(MessageOf(id))) =>
            Cardinality(ParsesOf(id, session)) = 1

(* payload.content of the chunk events, appended in order. *)
RECURSIVE JoinContents(_)
JoinContents(es) ==
    IF es = <<>> THEN ""
    ELSE (IF es[1].event = "chunk"
          THEN OrElse(Prop(PropObj(es[1], "payload"), "content"), "")
          ELSE "") \o JoinContents(Tail(es))

IsMetaChunksDone(es) ==
    /\ Len(es) >= 2
    /\ es[1].event = "meta"
    /\ es[Len(es)].event = "done"
    /\ \A i \in 2..(Len(es) - 1) : es[i].event = "chunk"

(* C8: chunk accumulation: when the events of a settled message whose      *)
(* lines are meta, chunk(c1), ..., chunk(cn), done have all been handled,  *)
(* ruleContent is c1 + ... + cn.                                           *)
C8_ChunkAccumulation ==
    \A id \in AssistantIds :
        LET msg == MessageOf(id)
            es == PartsEvents(msg.parts)
            n == Len(msg.parts)
        IN  (/\ Settled(msg)
             /\ Len(SplitLF(msg.parts[n].text)) = Len(es)
             /\ IsMetaChunksDone(es)
             /\ applied # <<>>
             /\ applied[Len(applied)].src = id
             /\ applied[Len(applied)].handledIn = session
             /\ [i \in 1..Len(HandledOf(id, session)) |->
                    HandledOf(id, session)[i].ev] = es)
            => ruleContent = JoinContents(es)

(* All events the panel holds: waiting, scheduled or handled. *)
PanelEvents ==
    {pendingEvents[i].ev : i \in DOMAIN pendingEvents}
    \cup UNION {{timers[k].events[i].ev : i \in DOMAIN timers[k].events} :
                   k \in DOMAIN timers}
    \cup {applied[i].ev : i \in DOMAIN applied}

(* C19, AIChatPanel: every event the panel holds has an event name of the  *)
(* protocol, and a message is marked event-only only if one of its lines   *)
(* is such an event.                                                       *)
C19_PanelNames ==
    /\ \A e \in PanelEvents :
          /\ "event" \in DOMAIN e
          /\ e.event \in {"meta", "chunk", "progress", "file", "done", "error",
                          "clarify"}
    /\ \A id \in eventOnlyMessageIds :
          \E i \in DOMAIN parses :
              /\ parses[i].id = id
              /\ \E p \in DOMAIN parses[i].parts :
                    /\ parses[i].parts[p].type = "text"
                    /\ \E k \in {"meta", "meta-", "chA", "chB", "ch-", "done",
                                 "error", "clarify", "clarify-", "progress"} :
                          \E l \in DOMAIN SplitLF(parses[i].parts[p].text) :
                              Trim(SplitLF(parses[i].parts[p].text)[l]) = EventLine(k)

(* C19: event-name validation: a line of valid JSON without a type/event   *)
(* of the protocol yields no event, in generateRule and in AIChatPanel.    *)
C19_EventNameValidation == [][C19_HookStep]_vars /\ []C19_PanelNames

(* payload has the fields the event's schema requires. *)
HasRequiredPayload(e) ==
    LET fields == IF "payload" \in DOMAIN e THEN DOMAIN e.payload ELSE {}
    IN  CASE e.event = "meta" ->
                {"id", "rule_type", "tech_stack", "filename", "schema_version"}
                    \subseteq fields
          [] e.event = "chunk" -> "content" \in fields
          [] e.event = "clarify" -> {"message", "required_fields"} \subseteq fields
          [] OTHER -> TRUE

(* C20: no event whose payload lacks a required field is enqueued,         *)
(* scheduled or handled by handleStreamingEvent.                           *)
C20_PayloadValidation == \A e \in PanelEvents : HasRequiredPayload(e)

(* C22: the reset-session step leaves all rule generation state at its     *)
(* initial value, in the panel (isGeneratingRules, ruleContent, the two    *)
(* id sets) and in the page (isGeneratingRules, streamingRuleContent,      *)
(* ruleMeta, clarifyMessage).                                              *)
C22_ResetStep ==
    session' = session + 1 =>
        /\ ~isGeneratingRules'
        /\ ruleContent' = ""
        /\ processedMessageIds' = {}
        /\ eventOnlyMessageIds' = {}
        /\ ~page'.isGeneratingRules
        /\ page'.streamingRuleContent = ""
        /\ page'.ruleMeta = NullObject
        /\ page'.clarifyMessage = NullObject

C22_SessionReset == [][C22_ResetStep]_vars

(* The event a timer callback handled last, when the step is one. *)
BatchHandled == Len(applied') > Len(applied)
LastHandled == applied'[Len(applied')].ev

(* C25: after a timer callback whose last event is a clarify, the panel    *)
(* and the page are not generating, the page holds the clarify payload if  *)
(* the event has one, and no error is recorded (the chat status is as it   *)
(* was), whether a meta was handled before or not.                         *)
C25_ClarifyStep ==
    (BatchHandled /\ LastHandled.event = "clarify") =>
        /\ ~isGeneratingRules'
        /\ ~page'.isGeneratingRules
        /\ "payload" \in DOMAIN LastHandled =>
              page'.clarifyMessage = LastHandled.payload
        /\ status' = status
        /\ chatMessages' = chatMessages

C25_ClarifyIsNormal == [][C25_ClarifyStep]_vars

C25_Witness ==
    /\ Len(applied) >= 2
    /\ applied[1].ev.event = "meta"
    /\ applied[Len(applied)].ev = EventOf["clarify"]
    /\ ~isGeneratingRules
    /\ ~page.isGeneratingRules
    /\ page.clarifyMessage = EventOf["clarify"].payload
    /\ status # "error"

(* C26: after a timer callback whose last event is an error, nothing is    *)
(* generating and the streamed content is cleared in the panel and in the  *)
(* page.                                                                   *)
C26_ErrorStep ==
    (BatchHandled /\ LastHandled.event = "error") =>
        /\ ~isGeneratingRules'
        /\ ruleContent' = ""
        /\ page'.streamingRuleContent = ""

C26_ErrorClearsContent == [][C26_ErrorStep]_vars

(* Every non-blank line of the text parts is a valid protocol event. *)
IsEventLine(l) ==
    LET j == JSONParse(Trim(l))
    IN  /\ j.kind = "object"
        /\ "event" \in DOMAIN j.value
        /\ j.value.event \in {"meta", "chunk", "progress", "file", "done", "error",
                              "clarify"}
OnlyEvents(parts) ==
    /\ \E p \in DOMAIN parts : parts[p].type = "text" /\ parts[p].text # <<>>
    /\ \A p \in DOMAIN parts :
          parts[p].type = "text" =>
              \A l \in DOMAIN SplitLF(parts[p].text) :
                  LET line == SplitLF(parts[p].text)[l]
                  IN  Trim(line) # <<>> => IsEventLine(line)

(* C27: a message the effect has parsed in this session is marked          *)
(* event-only exactly if every non-blank line of its text is a valid       *)
(* event.                                                                  *)
C27_EventOnlyMarking ==
    \A i \in DOMAIN parses :
        parses[i].session = session =>
            (parses[i].id \in eventOnlyMessageIds <=> OnlyEvents(parses[i].parts))

(* React runs the effects of a committed render and the browser runs the   *)
(* setTimeout callbacks: these steps are taken whenever they are due.     *)
(* What the user and the server do (a message sent, a part arriving, a     *)
(* reset) may never happen.                                                *)
SpecPanelFair ==
    /\ Init
    /\ [][NextPanel]_vars
    /\ WF_vars(MonitorEffect)
    /\ WF_vars(PendingEffect)
    /\ WF_vars(TimerFire)

(* C33: events waiting in pendingEvents are eventually taken from it and   *)
(* passed to handleStreamingEvent by the panel's own steps (effects and    *)
(* timer callbacks), whether or not chatMessages changes again.            *)
C33_PendingHandled == (pendingEvents # <<>>) ~> (pendingEvents = <<>>)

(* C34: an id in processedMessageIds whose message now carries its text,   *)
(* all of it 'done' and with events in it, has been parsed in this         *)
(* session with that text: an evaluation made while the message had no     *)
(* text part does not stand in for it.                                     *)
C34_ProcessedMeansParsed ==
    \A id \in AssistantIds \cap processedMessageIds :
        (Settled(MessageOf(id)) /\ PartsEvents(MessageOf(id).parts) # <<>>) =>
            ParsesOf(id, session) # {}

(* Runs of the message effect, in any session, that parsed message id as   *)
(* it is now.                                                              *)
ParsedAsNow(id) ==
    {i \in DOMAIN parses : parses[i].id = id /\ parses[i].parts = MessageOf(id).parts}

(* C35: every settled assistant message the message effect has had its     *)
(* turn on, the last one or an earlier one, has been parsed by a run of    *)
(* the effect, and by one run only.                                        *)
C35_NoSettledSkipped ==
    \A id \in AssistantIds :
        (Settled(MessageOf(id)) /\ (MonitorHasRun \/ id # LastMessage.id)) =>
            Cardinality(ParsedAsNow(id)) = 1

(* The batch starts with a chunk and holds nothing that resets or clears   *)
(* the content.                                                            *)
IsChunkBatch(es) ==
    /\ es # <<>>
    /\ es[1].ev.event = "chunk"
    /\ \A i \in DOMAIN es : es[i].ev.event \in {"chunk", "done", "error"}

(* C36: after a timer callback that handled chunk events while a           *)
(* generation was going on, the content the page has been given            *)
(* (streamingRuleContent) is the panel's ruleContent, all chunks of the    *)
(* batch included.                                                         *)
C36_ReportStep ==
    (BatchHandled /\ Head(timers).isGeneratingRules
        /\ IsChunkBatch(Head(timers).events)) =>
        page'.streamingRuleContent = ruleContent'

C36_ContentReported == [][C36_ReportStep]_vars

(* C37: every event handled was parsed in the session it is handled in,    *)
(* and the events handled of one message were all parsed in one session:   *)
(* nothing parsed before a reset is applied after it, and no message is    *)
(* parsed and applied again.                                               *)
C37_ResetIsolates ==
    /\ \A i \in DOMAIN applied : applied[i].parsedIn = applied[i].handledIn
    /\ \A i, j \in DOMAIN applied :
          applied[i].src = applied[j].src => applied[i].parsedIn = applied[j].parsedIn

(* C40: while the page shows a clarification, no generation that started   *)
(* after it is in progress or has left its metadata or content.            *)
C40_ClarifyCleared ==
    page.clarifyMessage # NullObject =>
        /\ ~page.isGeneratingRules
        /\ page.ruleMeta = NullObject
        /\ page.streamingRuleContent = ""

(***************************************************************************)
(* Claims about AIController.chat.                                         *)
(***************************************************************************)
(* The message list a body carries, if it carries one. *)
CarriesList(b) ==
    \/ b.kind = "array"
    \/ /\ b.kind = "object"
       /\ "messages" \in DOMAIN b.fields
       /\ b.fields.messages.kind = "array"
ListOf(b) == IF b.kind = "array" THEN b.items ELSE b.fields.messages.items
CarriesSingle(b) ==
    b.kind = "object" /\ ~CarriesList(b) /\ "message" \in DOMAIN b.fields

(* A last message that is missing, not the user's, or without content and  *)
(* without parts.                                                          *)
BadLast(l) ==
    \/ l = <<>>
    \/ l[Len(l)] = NullObject
    \/ /\ l[Len(l)] # NullObject
       /\ \/ l[Len(l)].role # "user"
          \/ /\ ("content" \notin DOMAIN l[Len(l)] \/ l[Len(l)].content = "")
             /\ ("parts" \notin DOMAIN l[Len(l)] \/ l[Len(l)].parts = <<>>)

InvalidRequest(b) ==
    \/ ~CarriesList(b) /\ ~CarriesSingle(b)
    \/ CarriesList(b) /\ BadLast(ListOf(b))

C28_Outcome ==
    /\ chatPc # "done" => res = Undefined
    /\ chatPc = "done" => res.status \in {400, 500, 200}
    /\ (chatPc # "idle" /\ InvalidRequest(reqBody)) =>
          /\ chatPc \in {"parse", "validate", "done"}
          /\ streamOptions = Undefined
          /\ chatPc = "done" => res.status = 400

C28_OneResponse == res # Undefined => res' = res

(* C28: a request ends with one response, 400, 500 or the piped stream; a  *)
(* body that carries no message list and no single message, or whose list  *)
(* is empty or ends with a message that is not the user's or has neither   *)
(* content nor parts, gets 400 and never reaches generateStream.           *)
C28_HttpBoundary == []C28_Outcome /\ [][C28_OneResponse]_vars

C28_Witness ==
    /\ chatPc = "done"
    /\ reqBody = Obj([messages |-> Arr(<<UserText, AssistantText>>),
                      temperature |-> 7])
    /\ res.status = 400
    /\ streamOptions = Undefined

(* C29: streamText receives the temperature and maxTokens the request      *)
(* supplies, whatever their value, the default temperature only when the   *)
(* request has none, and the Groq hints whenever the model is Groq's.      *)
C29_OptionPassThrough ==
    streamOptions # Undefined =>
        /\ streamOptions.temperature =
              IF "temperature" \in DOMAIN options THEN options.temperature
              ELSE DefaultTemperature
        /\ "maxTokens" \in DOMAIN options =>
              /\ "maxTokens" \in DOMAIN streamOptions
              /\ streamOptions.maxTokens = options.maxTokens
        /\ streamOptions.model.provider = Groq =>
              /\ "providerOptions" \in DOMAIN streamOptions
              /\ streamOptions.providerOptions.groq =
                    [parallelToolCalls |-> TRUE, serviceTier |-> "flex"]

====
